---- MODULE Spec2Model ----
\* Model of the /api/improve escalation pipeline of src/server.js (Prompt Forge).
\* Strings are sequences of one-character strings; a fixed template fragment or a
\* label is a single element of such a sequence.
EXTENDS Integers, Sequences, FiniteSets, TLC

\* --------------------------------------------------------------- configuration
\* Environment-derived settings (src/server.js:14-20), at the values this model runs.
MAX_PROMPT_LENGTH == 5
OPENAI_TIMEOUT_WEB_SEARCH_MS == 30000
OPENAI_TIMEOUT_RETRIES == 2
OPENAI_TIMEOUT_RETRY_DELTA_MS == 15000
OPENAI_POLL_INTERVAL_MS == 2
OPENAI_POLL_MAX_WAIT_MS == 3
MAX_OUTPUT_TOKENS == 550

\* --------------------------------------------------------------- strings
NL == "\n"
CR == "\r"

\* the characters String.prototype.trim and the regex class \s remove
IsWs(c) == c \in {" ", NL, CR, "\t"}

RECURSIVE TrimLeft(_)
TrimLeft(s) ==
  IF s = <<>> THEN <<>>
  ELSE IF IsWs(Head(s)) THEN TrimLeft(Tail(s)) ELSE s

RECURSIVE TrimRight(_)
TrimRight(s) ==
  IF s = <<>> THEN <<>>
  ELSE IF IsWs(s[Len(s)]) THEN TrimRight(SubSeq(s, 1, Len(s) - 1)) ELSE s

Trim(s) == TrimRight(TrimLeft(s))

\* chunks.join("\n")
RECURSIVE Join(_)
Join(chunks) ==
  IF chunks = <<>> THEN <<>>
  ELSE IF Len(chunks) = 1 THEN chunks[1]
  ELSE chunks[1] \o <<NL>> \o Join(Tail(chunks))

\* .replace(/\r\n/g, "\n")
RECURSIVE ReplaceCRLF(_)
ReplaceCRLF(s) ==
  IF s = <<>> THEN <<>>
  ELSE IF Len(s) >= 2 /\ s[1] = CR /\ s[2] = NL
       THEN <<NL>> \o ReplaceCRLF(SubSeq(s, 3, Len(s)))
       ELSE <<s[1]>> \o ReplaceCRLF(Tail(s))

\* length of the run of line feeds s starts with
RECURSIVE NewlineRun(_)
NewlineRun(s) ==
  IF s = <<>> \/ Head(s) # NL THEN 0 ELSE 1 + NewlineRun(Tail(s))

\* .replace(/\n{3,}/g, "\n\n")
RECURSIVE CollapseNewlines(_)
CollapseNewlines(s) ==
  IF s = <<>> THEN <<>>
  ELSE LET r == NewlineRun(s) IN
       IF r >= 3 THEN <<NL, NL>> \o CollapseNewlines(SubSeq(s, r + 1, Len(s)))
       ELSE IF r >= 1 THEN SubSeq(s, 1, r) \o CollapseNewlines(SubSeq(s, r + 1, Len(s)))
       ELSE <<s[1]>> \o CollapseNewlines(Tail(s))

\* a request body whose prompt field is missing or not a string
NotAString == "$not-a-string"

normalizePrompt(value) ==
  IF value = NotAString THEN <<>>
  ELSE Trim(CollapseNewlines(ReplaceCRLF(value)))

\* mutant: whitespace is left as the user typed it
CollapseWhitespace_Keep(s) == s

\* .replace(/\s+/g, " ")
RECURSIVE CollapseWhitespace(_)
CollapseWhitespace(s) ==
  IF s = <<>> THEN <<>>
  ELSE IF IsWs(Head(s))
       THEN <<" ">> \o CollapseWhitespace(TrimLeft(s))
       ELSE <<Head(s)>> \o CollapseWhitespace(Tail(s))

\* String.prototype.includes
Includes(text, kw) ==
  \E i \in 1..(Len(text) - Len(kw) + 1) : SubSeq(text, i, i + Len(kw) - 1) = kw

\* String.prototype.toLowerCase on the model's alphabet
LowerChar(c) == IF c = "A" THEN "a" ELSE IF c = "D" THEN "d" ELSE c
ToLowerCase(s) == [i \in 1..Len(s) |-> LowerChar(s[i])]

\* --------------------------------------------------------------- upstream response shapes
\* A content part is either a plain string (kind "string", its characters in text) or an
\* object (kind "object") with optional type, text, value and refusal fields; an absent
\* string field is the empty string, which every typeof/trim test of the code treats alike.
StrPart(s) == [kind |-> "string", type |-> "", text |-> s, value |-> <<>>, refusal |-> <<>>]
ObjPart(type, text, refusal) ==
  [kind |-> "object", type |-> type, text |-> text, value |-> <<>>, refusal |-> refusal]
ValPart(value) == [kind |-> "object", type |-> "", text |-> <<>>, value |-> value, refusal |-> <<>>]

\* An output item: content is absent ("none"), a string, or an array of parts.
Item(type, text, refusal, content_kind, content_str, content) ==
  [type |-> type, text |-> text, refusal |-> refusal, content_kind |-> content_kind,
   content_str |-> content_str, content |-> content]
MessageItem(parts) == Item("message", <<>>, <<>>, "array", <<>>, parts)
ToolItem(type) == Item(type, <<>>, <<>>, "none", <<>>, <<>>)

\* A legacy chat choice: message.content is absent, a string, or an array of parts.
Choice(content_kind, content_str, content, refusal) ==
  [content_kind |-> content_kind, content_str |-> content_str, content |-> content,
   refusal |-> refusal]

\* A response: output_text is absent ("none"), a string or an array of segments.
Response(id, status, reason, otk, ot, ota, output, choices) ==
  [id |-> id, status |-> status, reason |-> reason, output_text_kind |-> otk,
   output_text |-> ot, output_text_arr |-> ota, output |-> output, choices |-> choices]

NonBlank(s) == Trim(s) # <<>>

RECURSIVE Flatten(_)
Flatten(ss) == IF ss = <<>> THEN <<>> ELSE Head(ss) \o Flatten(Tail(ss))

\* the chunks one message.content part of a choice adds (lines 963-971)
ChoicePartTextChunks(part) ==
  IF part.kind = "string"
  THEN (IF NonBlank(part.text) THEN <<Trim(part.text)>> ELSE <<>>)
  ELSE (IF NonBlank(part.text) THEN <<Trim(part.text)>> ELSE <<>>)

\* the chunks one choice adds (lines 955-973)
ChoiceTextChunks(choice) ==
  IF choice.content_kind = "string" /\ NonBlank(choice.content_str)
  THEN <<Trim(choice.content_str)>>
  ELSE IF choice.content_kind = "array"
       THEN Flatten([i \in 1..Len(choice.content) |-> ChoicePartTextChunks(choice.content[i])])
       ELSE <<>>

extractTextFromChoices(response) ==
  IF response.choices = <<>> THEN <<>>
  ELSE Trim(Join(Flatten([i \in 1..Len(response.choices) |->
                            ChoiceTextChunks(response.choices[i])])))

\* one segment of an output_text array (lines 420-431), before filter(Boolean)
SegmentText(part) ==
  IF part.kind = "string" THEN Trim(part.text)
  ELSE IF part.text # <<>> THEN Trim(part.text)
  ELSE IF part.value # <<>> THEN Trim(part.value)
  ELSE <<>>

\* the chunks one part of item.content adds (lines 458-470)
PartTextChunks(part) ==
  IF part.kind = "string"
  THEN (IF NonBlank(part.text) THEN <<Trim(part.text)>> ELSE <<>>)
  ELSE IF NonBlank(part.text) THEN <<Trim(part.text)>>
  ELSE IF part.type = "output_text" /\ NonBlank(part.text) THEN <<Trim(part.text)>>
  ELSE <<>>

\* the chunks one output item adds (lines 445-471)
ItemTextChunks(item) ==
  LET own == IF NonBlank(item.text) THEN <<Trim(item.text)>> ELSE <<>> IN
  IF item.content_kind = "string" /\ NonBlank(item.content_str)
  THEN own \o <<Trim(item.content_str)>>
  ELSE IF item.content_kind # "array" THEN own
  ELSE own \o Flatten([i \in 1..Len(item.content) |-> PartTextChunks(item.content[i])])

\* mutant: the output items are read before output_text
extractOutputText_ItemsFirst(response) ==
  LET segs == [i \in 1..Len(response.output_text_arr) |->
                 SegmentText(response.output_text_arr[i])]
      textFromArray == Trim(Join(SelectSeq(segs, LAMBDA x : x # <<>>)))
      output == Trim(Join(Flatten([i \in 1..Len(response.output) |->
                                     ItemTextChunks(response.output[i])])))
  IN IF output # <<>> THEN output
     ELSE IF response.output_text_kind = "string" /\ NonBlank(response.output_text)
     THEN Trim(response.output_text)
     ELSE IF response.output_text_kind = "array" /\ textFromArray # <<>> THEN textFromArray
     ELSE extractTextFromChoices(response)

extractOutputText(response) ==
  IF response.output_text_kind = "string" /\ NonBlank(response.output_text)
  THEN Trim(response.output_text)
  ELSE LET segs == [i \in 1..Len(response.output_text_arr) |->
                      SegmentText(response.output_text_arr[i])]
           textFromArray == Trim(Join(SelectSeq(segs, LAMBDA x : x # <<>>)))
           output == Trim(Join(Flatten([i \in 1..Len(response.output) |->
                                          ItemTextChunks(response.output[i])])))
       IN IF response.output_text_kind = "array" /\ response.output_text_arr # <<>>
             /\ textFromArray # <<>>
          THEN textFromArray
          ELSE IF response.output = <<>> THEN extractTextFromChoices(response)
          ELSE IF output # <<>> THEN output
          ELSE extractTextFromChoices(response)

\* the chunks one part of item.content adds to the refusal (lines 494-503)
PartRefusalChunks(part) ==
  IF part.kind = "object" /\ NonBlank(part.refusal) THEN <<Trim(part.refusal)>>
  ELSE IF part.kind = "object" /\ part.type = "refusal" /\ NonBlank(part.text)
       THEN <<Trim(part.text)>>
  ELSE <<>>

\* the chunks one output item adds to the refusal (lines 485-504)
ItemRefusalChunks(item) ==
  LET own == IF NonBlank(item.refusal) THEN <<Trim(item.refusal)>> ELSE <<>> IN
  IF item.content_kind # "array" THEN own
  ELSE own \o Flatten([i \in 1..Len(item.content) |-> PartRefusalChunks(item.content[i])])

\* the chunks one choice adds to the refusal (lines 513-529)
ChoiceRefusalChunks(choice) ==
  IF NonBlank(choice.refusal) THEN <<Trim(choice.refusal)>>
  ELSE IF choice.content_kind # "array" THEN <<>>
  ELSE Flatten([i \in 1..Len(choice.content) |->
         IF choice.content[i].kind = "object" /\ NonBlank(choice.content[i].refusal)
         THEN <<Trim(choice.content[i].refusal)>> ELSE <<>>])

extractRefusalText(response) ==
  LET chunks == Flatten([i \in 1..Len(response.output) |->
                           ItemRefusalChunks(response.output[i])])
      refusalChunks == Flatten([i \in 1..Len(response.choices) |->
                                  ChoiceRefusalChunks(response.choices[i])])
  IN IF chunks # <<>> THEN Trim(Join(chunks)) ELSE Trim(Join(refusalChunks))

getIncompleteReason(response) == response.reason

\* output item types whose name contains "web_search"
WebSearchTypes == {"web_search_call"}

\* mutant: has_output_text looks at the output items only
buildResponseDebugInfo_ItemsOnly(response) ==
  LET outputItems == response.output
      outputTypes == [i \in 1..Len(outputItems) |->
                        IF outputItems[i].type = "" THEN "unknown" ELSE outputItems[i].type]
      outputText == extractOutputText(response)
      refusalText == extractRefusalText(response)
      hasOutputText == \E i \in 1..Len(outputItems) :
          \/ NonBlank(outputItems[i].text)
          \/ /\ outputItems[i].content_kind = "array"
             /\ \E j \in 1..Len(outputItems[i].content) :
                  LET part == outputItems[i].content[j] IN
                  \/ part.kind = "string" /\ NonBlank(part.text)
                  \/ part.kind = "object" /\ part.type = "output_text" /\ NonBlank(part.text)
      hasRefusal == \E i \in 1..Len(outputItems) :
          \/ NonBlank(outputItems[i].refusal)
          \/ /\ outputItems[i].content_kind = "array"
             /\ \E j \in 1..Len(outputItems[i].content) :
                  LET part == outputItems[i].content[j] IN
                  /\ part.kind = "object"
                  /\ \/ NonBlank(part.refusal)
                     \/ part.type = "refusal" /\ NonBlank(part.text)
  IN [response_id |-> response.id,
      status |-> response.status,
      incomplete_reason |-> getIncompleteReason(response),
      output_count |-> Len(outputItems),
      output_types |-> outputTypes,
      has_web_search_call |-> \E i \in 1..Len(outputTypes) : outputTypes[i] \in WebSearchTypes,
      has_output_text |-> hasOutputText,
      has_refusal |-> hasRefusal \/ Len(refusalText) > 0,
      output_text_length |-> Len(outputText),
      refusal_length |-> Len(refusalText)]

\* Token usage and elapsed time are not modelled: no decision of the handler reads them.
buildResponseDebugInfo(response) ==
  LET outputItems == response.output
      outputTypes == [i \in 1..Len(outputItems) |->
                        IF outputItems[i].type = "" THEN "unknown" ELSE outputItems[i].type]
      outputText == extractOutputText(response)
      refusalText == extractRefusalText(response)
      hasOutputText == \E i \in 1..Len(outputItems) :
          \/ NonBlank(outputItems[i].text)
          \/ /\ outputItems[i].content_kind = "array"
             /\ \E j \in 1..Len(outputItems[i].content) :
                  LET part == outputItems[i].content[j] IN
                  \/ part.kind = "string" /\ NonBlank(part.text)
                  \/ part.kind = "object" /\ part.type = "output_text" /\ NonBlank(part.text)
      hasRefusal == \E i \in 1..Len(outputItems) :
          \/ NonBlank(outputItems[i].refusal)
          \/ /\ outputItems[i].content_kind = "array"
             /\ \E j \in 1..Len(outputItems[i].content) :
                  LET part == outputItems[i].content[j] IN
                  /\ part.kind = "object"
                  /\ \/ NonBlank(part.refusal)
                     \/ part.type = "refusal" /\ NonBlank(part.text)
  IN [response_id |-> response.id,
      status |-> response.status,
      incomplete_reason |-> getIncompleteReason(response),
      output_count |-> Len(outputItems),
      output_types |-> outputTypes,
      has_web_search_call |-> \E i \in 1..Len(outputTypes) : outputTypes[i] \in WebSearchTypes,
      has_output_text |-> hasOutputText \/ Len(outputText) > 0,
      has_refusal |-> hasRefusal \/ Len(refusalText) > 0,
      output_text_length |-> Len(outputText),
      refusal_length |-> Len(refusalText)]

\* mutant: the entry replaces the trace instead of being appended
pushDebugTrace_Overwrite(tr, stepName, response, trigger_reason) ==
  <<[step |-> stepName, trigger_reason |-> trigger_reason,
     info |-> buildResponseDebugInfo(response)]>>

\* trace.push({step, ...base, ...extra}); the first step passes no extra
pushDebugTrace(tr, stepName, response, trigger_reason) ==
  Append(tr, [step |-> stepName, trigger_reason |-> trigger_reason,
              info |-> buildResponseDebugInfo(response)])

\* mutant: the table is applied to the latest attempt
buildEmptyOutputDiagnosis_LastAttempt(tr) ==
  IF tr = <<>> THEN "missing_first_attempt_trace"
  ELSE LET firstAttempt == tr[Len(tr)].info IN
       IF firstAttempt.has_output_text THEN "no_empty_output_first_attempt"
       ELSE IF firstAttempt.has_refusal THEN "first_attempt_refusal"
       ELSE IF firstAttempt.incomplete_reason = "max_output_tokens" THEN "max_output_tokens_reached"
       ELSE IF firstAttempt.status # "" /\ firstAttempt.status # "completed"
            THEN "first_attempt_not_completed"
       ELSE IF firstAttempt.has_web_search_call /\ ~firstAttempt.has_output_text
            THEN "web_search_without_final_text"
       ELSE IF firstAttempt.output_count = 0 THEN "first_attempt_no_output_items"
       ELSE "first_attempt_non_text_output"

buildEmptyOutputDiagnosis(tr) ==
  IF tr = <<>> THEN "missing_first_attempt_trace"
  ELSE LET firstAttempt == tr[1].info IN
       IF firstAttempt.has_output_text THEN "no_empty_output_first_attempt"
       ELSE IF firstAttempt.has_refusal THEN "first_attempt_refusal"
       ELSE IF firstAttempt.incomplete_reason = "max_output_tokens" THEN "max_output_tokens_reached"
       ELSE IF firstAttempt.status # "" /\ firstAttempt.status # "completed"
            THEN "first_attempt_not_completed"
       ELSE IF firstAttempt.has_web_search_call /\ ~firstAttempt.has_output_text
            THEN "web_search_without_final_text"
       ELSE IF firstAttempt.output_count = 0 THEN "first_attempt_no_output_items"
       ELSE "first_attempt_non_text_output"

\* --------------------------------------------------------------- local fallback generator
HealthKeywords ==
  <<<<"d","i","e","t","a">>,
    <<"a","l","i","m","e","n","t","a","z","i","o","n","e">>,
    <<"d","i","m","a","g","r">>,
    <<"c","a","l","o","r","i","e">>,
    <<"f","i","t","n","e","s","s">>,
    <<"a","l","l","e","n","a","m","e","n","t","o">>,
    <<"n","u","t","r","i","z">>>>

MarketingKeywords ==
  <<<<"m","a","r","k","e","t","i","n","g">>,
    <<"c","a","m","p","a","g","n","a">>,
    <<"l","e","a","d">>,
    <<"f","u","n","n","e","l">>,
    <<"b","r","a","n","d">>,
    <<"s","o","c","i","a","l">>,
    <<"a","d","s">>,
    <<"s","e","o">>,
    <<"e","c","o","m","m","e","r","c","e">>,
    <<"v","e","n","d","i","t">>,
    <<"g","r","o","w","t","h">>>>

CodingKeywords ==
  <<<<"c","o","d","i","c","e">>,
    <<"b","u","g">>,
    <<"d","e","b","u","g">>,
    <<"j","a","v","a","s","c","r","i","p","t">>,
    <<"t","y","p","e","s","c","r","i","p","t">>,
    <<"p","y","t","h","o","n">>,
    <<"n","o","d","e">>,
    <<"a","p","i">>,
    <<"a","p","p">>,
    <<"f","r","o","n","t","e","n","d">>,
    <<"b","a","c","k","e","n","d">>,
    <<"d","e","p","l","o","y">>,
    <<"s","e","r","v","e","r">>>>

StudyKeywords ==
  <<<<"s","t","u","d">>,
    <<"e","s","a","m","e">>,
    <<"t","e","s","i">>,
    <<"i","m","p","a","r">>,
    <<"a","p","p","r","e","n","d","e","r","e">>,
    <<"r","i","a","s","s","u","n","t","o">>,
    <<"p","i","a","n","o"," ","s","t","u","d","i","o">>>>

hasAnyKeyword(text, keywords) ==
  IF text = <<>> \/ keywords = <<>> THEN FALSE
  ELSE \E i \in 1..Len(keywords) : Includes(text, keywords[i])

\* mutant: the topics are tried in the order study, coding, marketing, health
buildLocalFallbackPrompt_StudyFirst(userPrompt) ==
  LET concisePrompt == Trim(CollapseWhitespace(userPrompt))
      lowerPrompt == ToLowerCase(concisePrompt)
  IN IF hasAnyKeyword(lowerPrompt, StudyKeywords)
     THEN <<"[study: ruolo, obiettivo]", NL, "Richiesta utente: ">>
          \o concisePrompt \o <<NL, "[study: formato, vincoli]">>
     ELSE IF hasAnyKeyword(lowerPrompt, CodingKeywords)
     THEN <<"[coding: ruolo, obiettivo]", NL, "Richiesta utente: ">>
          \o concisePrompt \o <<NL, "[coding: formato, vincoli]">>
     ELSE IF hasAnyKeyword(lowerPrompt, MarketingKeywords)
     THEN <<"[marketing: ruolo, obiettivo]", NL, "Richiesta utente: ">>
          \o concisePrompt \o <<NL, "[marketing: output, vincoli]">>
     ELSE IF hasAnyKeyword(lowerPrompt, HealthKeywords)
     THEN <<"[health: ruolo, obiettivo]", NL, NL, "Richiesta di partenza:", NL>>
          \o concisePrompt \o <<NL, NL, "[health: domande, output, vincoli]">>
     ELSE <<"[generic: ruolo, obiettivo]", NL, "Richiesta utente: ">>
          \o concisePrompt \o <<NL, "[generic: vincoli, formato]">>

\* The fixed lines of a template are single elements; the user's request is spelled out.
buildLocalFallbackPrompt(userPrompt) ==
  LET concisePrompt == Trim(CollapseWhitespace(userPrompt))
      lowerPrompt == ToLowerCase(concisePrompt)
      isHealthRequest == hasAnyKeyword(lowerPrompt, HealthKeywords)
      isMarketingRequest == hasAnyKeyword(lowerPrompt, MarketingKeywords)
      isCodingRequest == hasAnyKeyword(lowerPrompt, CodingKeywords)
      isStudyRequest == hasAnyKeyword(lowerPrompt, StudyKeywords)
  IN IF isHealthRequest
     THEN <<"[health: ruolo, obiettivo]", NL, NL, "Richiesta di partenza:", NL>>
          \o concisePrompt \o <<NL, NL, "[health: domande, output, vincoli]">>
     ELSE IF isMarketingRequest
     THEN <<"[marketing: ruolo, obiettivo]", NL, "Richiesta utente: ">>
          \o concisePrompt \o <<NL, "[marketing: output, vincoli]">>
     ELSE IF isCodingRequest
     THEN <<"[coding: ruolo, obiettivo]", NL, "Richiesta utente: ">>
          \o concisePrompt \o <<NL, "[coding: formato, vincoli]">>
     ELSE IF isStudyRequest
     THEN <<"[study: ruolo, obiettivo]", NL, "Richiesta utente: ">>
          \o concisePrompt \o <<NL, "[study: formato, vincoli]">>
     ELSE <<"[generic: ruolo, obiettivo]", NL, "Richiesta utente: ">>
          \o concisePrompt \o <<NL, "[generic: vincoli, formato]">>

\* --------------------------------------------------------------- failures
\* A label: the step's base label, the retry number (0: none) and the suffix the poller adds.
Label(base, retry, suffix) == [base |-> base, retry |-> retry, suffix |-> suffix]
NoLabel == Label("", 0, "")

\* An Error object. message is a sequence of fragments, the words "timeout" and "timed out"
\* being fragments of their own; status 0, timeoutMs 0, NoLabel and attempts 0 stand for an
\* absent field.
Error(code, message, status, timeoutMs, label, attempts) ==
  [code |-> code, message |-> message, status |-> status, timeoutMs |-> timeoutMs,
   label |-> label, attempts |-> attempts]
NoError == Error("$none", <<>>, 0, 0, NoLabel, 0)

LowerFragment(f) == IF f = "Timeout" THEN "timeout" ELSE IF f = "Timed out" THEN "timed out" ELSE f

\* mutant: every failure is taken for a timeout
isTimeoutError_Always(error) == TRUE

\* mutant: a timeout raised by the poller is not taken for a timeout
isTimeoutError_NotFromPoller(error) ==
  /\ error.label.suffix = ""
  /\ \/ error.code = "TIMEOUT"
     \/ \E i \in 1..Len(error.message) : LowerFragment(error.message[i]) = "timeout"
     \/ \E i \in 1..Len(error.message) : LowerFragment(error.message[i]) = "timed out"

isTimeoutError(error) ==
  \/ error.code = "TIMEOUT"
  \/ \E i \in 1..Len(error.message) : LowerFragment(error.message[i]) = "timeout"
  \/ \E i \in 1..Len(error.message) : LowerFragment(error.message[i]) = "timed out"

\* the Error withTimeout's timer rejects with (lines 1311-1317)
TimerError(timeoutMs, label) ==
  Error("TIMEOUT", <<"${label} ", "timeout", " (${timeoutMs}ms)">>, 0, timeoutMs, label, 0)

\* mutant: the polling failure keeps the attempt's plain label
PollingError_PlainLabel(label) ==
  Error("TIMEOUT", <<"${label} polling ", "timeout", " (${OPENAI_POLL_MAX_WAIT_MS}ms)">>, 0,
        OPENAI_POLL_MAX_WAIT_MS, label, 0)

\* the Error waitForResponseCompletion throws at the maximum wait (lines 1242-1246)
PollingError(label) ==
  Error("TIMEOUT", <<"${label} polling ", "timeout", " (${OPENAI_POLL_MAX_WAIT_MS}ms)">>, 0,
        OPENAI_POLL_MAX_WAIT_MS, [label EXCEPT !.suffix = " polling"], 0)

\* failures the provider's client can reject with
EAuth ==
  Error("", <<"401 Incorrect ", "API key provided: ", "sk-abcdefghijkl">>, 401, 0, NoLabel, 0)
EServer == Error("", <<"500 The server had an error">>, 500, 0, NoLabel, 0)
ENoStatus == Error("", <<"Connection error.">>, 0, 0, NoLabel, 0)
EConnTimeout == Error("", <<"Request ", "timed out", ".">>, 0, 0, NoLabel, 0)
EQuota ==
  Error("", <<"429 Quota exceeded for key ", "sk-abcdefghijkl", ".">>, 429, 0, NoLabel, 0)
UpstreamErrors == {EAuth, EQuota, EServer, ENoStatus, EConnTimeout}

\* --------------------------------------------------------------- upstream responses
TextT == <<"T">>
TextR == <<"R">>
RText ==
  Response("r1", "completed", "", "none", <<>>, <<>>,
           <<ToolItem("web_search_call"), MessageItem(<<ObjPart("output_text", TextT, <<>>)>>)>>, <<>>)
RChoiceText ==
  Response("c1", "", "", "none", <<>>, <<>>, <<>>, <<Choice("string", <<" ", "T">>, <<>>, <<>>)>>)
RRefusal ==
  Response("r1", "completed", "", "none", <<>>, <<>>,
           <<MessageItem(<<ObjPart("refusal", <<>>, TextR)>>)>>, <<>>)
RRefusalTyped ==
  Response("r1", "completed", "", "none", <<>>, <<>>,
           <<MessageItem(<<ObjPart("refusal", TextR, <<>>)>>)>>, <<>>)
REmptyTool ==
  Response("r1", "completed", "", "none", <<>>, <<>>, <<ToolItem("web_search_call")>>, <<>>)
RTokenLimit ==
  Response("r2", "incomplete", "max_output_tokens", "none", <<>>, <<>>, <<ToolItem("reasoning")>>, <<>>)
RQueued ==
  Response("r3", "queued", "", "none", <<>>, <<>>, <<>>, <<>>)
RInProgressNoId ==
  Response("", "in_progress", "", "string", <<" ">>, <<>>, <<>>, <<>>)

SettledResponses ==
  {RText, RChoiceText, RRefusal, RRefusalTyped, REmptyTool, RTokenLimit}
Responses == SettledResponses \cup {RQueued, RInProgressNoId}

\* --------------------------------------------------------------- request bodies
Bodies ==
  { NotAString,
    <<>>,
    <<" ", NL>>,
    <<"a", CR, NL, NL, "b">>,
    <<" ", "D", "i", "e", "t", "a">>,
    <<"d", "i", "e", "t", "a", "s", " ">> }

\* --------------------------------------------------------------- the handler's state
VARIABLES
  openai,                   \* whether the OPENAI_API_KEY client exists (line 47)
  USE_CHAT_COMPLETIONS_API, \* line 25
  body,                     \* req.body.prompt
  pc,                       \* where the handler is suspended
  prompt,                   \* let prompt (line 93)
  trace,                    \* const trace (line 92)
  step,                     \* the escalation step being requested (0: none yet)
  payload,                  \* the payload of the step's upstream request
  label,                    \* the step's label
  attempt,                  \* requestWithTimeoutRetry: attempt
  timeoutMs,                \* requestWithTimeoutRetry: timeoutMs
  lastTimeoutError,         \* requestWithTimeoutRetry: lastTimeoutError
  createCalls,              \* create calls the current requestWithTimeoutRetry has issued
  response,                 \* waitForResponseCompletion: response
  waitedMs,                 \* waitForResponseCompletion: waitedMs
  lastResponse,             \* let lastResponse
  finalDebug,               \* let finalDebug (a sequence of 0 or 1 debug infos)
  output,                   \* let output
  refusal,                  \* let refusal
  recoveredFromEmptyOutput, \* let recoveredFromEmptyOutput
  usedNoWebRecovery,        \* let usedNoWebRecovery
  caught,                   \* the error the handler's catch received
  res,                      \* the HTTP response sent (a sequence of 0 or 1 responses)
  logged,                   \* number of [debug-empty-output] events written
  fnArg,                    \* the argument of a helper function applied on its own
  fnOut,                    \* the values the helper returned, in order
  timers,                   \* withTimeout: timers set and not yet cleared or fired
  abandoned,                \* upstream calls given up at a timeout that have not settled yet
  reqs                      \* the handler-local state of each of several concurrent requests

vars ==
  <<openai, USE_CHAT_COMPLETIONS_API, body, pc, prompt, trace, step, payload, label, attempt,
    timeoutMs, lastTimeoutError, createCalls, response, waitedMs, lastResponse, finalDebug,
    output, refusal, recoveredFromEmptyOutput, usedNoWebRecovery, caught, res, logged,
    fnArg, fnOut, timers, abandoned, reqs>>

StepNames ==
  <<"initial_web_search", "retry_web_search_direct_text", "finalize_from_previous_web_search",
    "retry_model_only", "finalize_from_previous_model_only">>

NoResponse == Response("", "", "", "none", <<>>, <<>>, <<>>, <<>>)
NoPayload == [max_output_tokens |-> 0, web_search |-> FALSE, previous_response_id |-> "",
              token_limited |-> FALSE]

\* mutant: token pressure gets the floor of an ordinary retry
getAdaptiveMaxOutputTokens_NoPressure(mode) ==
  LET floor == IF mode = "initial" THEN 1200 ELSE 1600
  IN IF MAX_OUTPUT_TOKENS > floor THEN MAX_OUTPUT_TOKENS ELSE floor

getAdaptiveMaxOutputTokens(mode) ==
  LET floor == IF mode = "initial" THEN 1200
               ELSE IF mode = "retry" THEN 1600
               ELSE IF mode = "token_pressure" THEN 2600
               ELSE 1100
  IN IF MAX_OUTPUT_TOKENS > 0
     THEN (IF MAX_OUTPUT_TOKENS > floor THEN MAX_OUTPUT_TOKENS ELSE floor)
     ELSE floor

\* the label each step's request function passes to the Retrying Invoker
StepLabel(k, chat) ==
  IF chat
  THEN (IF k = 1 THEN "Provider chat.completions initial"
        ELSE IF k = 2 THEN "Provider chat.completions retry-empty-output"
        ELSE IF k = 4 THEN "Provider chat.completions model-only retry-empty-output"
        ELSE "Provider chat.completions finalize-fallback")
  ELSE (IF k = 1 THEN "OpenAI+web_search"
        ELSE IF k = 2 THEN "OpenAI+web_search retry-empty-output"
        ELSE IF k = 4 THEN "OpenAI model-only retry-empty-output"
        ELSE "OpenAI finalize-from-previous")

\* mutant: only the first finalize step references the previous response
StepPayload_ContinuesOnlyWebSearch(k, chat, prev) ==
  LET isTokenLimited == getIncompleteReason(prev) = "max_output_tokens" IN
  [max_output_tokens |->
     IF k = 1 THEN getAdaptiveMaxOutputTokens("initial")
     ELSE getAdaptiveMaxOutputTokens(IF isTokenLimited THEN "token_pressure" ELSE "retry"),
   web_search |-> (~chat) /\ k \in {1, 2},
   previous_response_id |-> IF (~chat) /\ k = 3 THEN prev.id ELSE "",
   token_limited |-> k > 1 /\ isTokenLimited]

\* the payload of step k, built from the previous response (createImprovementResponse,
\* requestDirectTextFallback, requestFinalizeFromPreviousResponse, requestModelOnlyFallback)
StepPayload(k, chat, prev) ==
  LET isTokenLimited == getIncompleteReason(prev) = "max_output_tokens" IN
  [max_output_tokens |->
     IF k = 1 THEN getAdaptiveMaxOutputTokens("initial")
     ELSE getAdaptiveMaxOutputTokens(IF isTokenLimited THEN "token_pressure" ELSE "retry"),
   web_search |-> (~chat) /\ k \in {1, 2},
   previous_response_id |-> IF (~chat) /\ k \in {3, 5} THEN prev.id ELSE "",
   token_limited |-> k > 1 /\ isTokenLimited]

\* mutant: no status counts as pending
isPendingResponseStatus_Never(status) == FALSE

isPendingResponseStatus(status) == status = "queued" \/ status = "in_progress"

\* mutant: the model-only retry is requested whenever there is no refusal, text or not
StepGuard_ModelOnlyIgnoresOutput(k, out, ref, last) ==
  IF k = 2 THEN out = <<>>
  ELSE IF k = 4 THEN ref = <<>>
  ELSE out = <<>> /\ ref = <<>> /\ last.id # ""

\* mutant: the finalize steps are requested without a response id to continue from
StepGuard_NoIdCheck(k, out, ref, last) ==
  IF k = 2 THEN out = <<>>
  ELSE out = <<>> /\ ref = <<>>

\* the condition under which the handler requests step k (lines 132, 155, 179, 205)
StepGuard(k, out, ref, last) ==
  IF k = 2 THEN out = <<>>
  ELSE IF k = 4 THEN out = <<>> /\ ref = <<>>
  ELSE out = <<>> /\ ref = <<>> /\ last.id # ""

\* the first step from k on whose guard holds, 6 when none does
RECURSIVE NextStep(_, _, _, _)
NextStep(k, out, ref, last) ==
  IF k > 5 THEN 6
  ELSE IF StepGuard(k, out, ref, last) THEN k
  ELSE NextStep(k + 1, out, ref, last)

Init ==
  /\ openai \in BOOLEAN
  /\ USE_CHAT_COMPLETIONS_API \in BOOLEAN
  /\ body \in Bodies
  /\ pc = "received"
  /\ prompt = <<>>
  /\ trace = <<>>
  /\ step = 0
  /\ payload = NoPayload
  /\ label = ""
  /\ attempt = 0
  /\ timeoutMs = 0
  /\ lastTimeoutError = NoError
  /\ createCalls = 0
  /\ response = NoResponse
  /\ waitedMs = 0
  /\ lastResponse = NoResponse
  /\ finalDebug = <<>>
  /\ output = <<>>
  /\ refusal = <<>>
  /\ recoveredFromEmptyOutput = FALSE
  /\ usedNoWebRecovery = FALSE
  /\ caught = NoError
  /\ res = <<>>
  /\ logged = 0
  /\ fnArg = <<>>
  /\ fnOut = <<>>
  /\ timers = 0
  /\ abandoned = 0
  /\ reqs = <<>>

\* --------------------------------------------------------------- responses of the handler
LOG_EMPTY_OUTPUT_TRACE == TRUE

\* message fragments the first pattern of redactSensitiveText matches (sk- and 12 or more
\* key characters), and fragments ending in "api key ...: " that the second one matches
SecretFragments == {"sk-abcdefghijkl"}
ApiKeyPrefixes == {"API key provided: "}

\* mutant: the message is passed on as it came
redactSensitiveText_Identity(value) == value

redactSensitiveText(value) ==
  LET first == [i \in 1..Len(value) |->
                  IF value[i] \in SecretFragments THEN "sk-***REDACTED***" ELSE value[i]]
  IN [i \in 1..Len(first) |->
        IF i > 1 /\ first[i - 1] \in ApiKeyPrefixes THEN "***REDACTED***" ELSE first[i]]

\* errorDebug of the two catch branches; an absent field is NoLabel, 0 or <<>>
NoErrorDebug ==
  [timeout_label |-> NoLabel, timeout_ms |-> 0, attempts |-> 0, upstream_status |-> 0,
   upstream_error |-> <<>>]

\* mutant: the payload carries the first attempt in place of the whole trace
buildResponseDebugPayload_FirstOnly(tr, fd, recovered, noWeb, localFallback, errorDebug) ==
  [recovered_from_empty_output |-> recovered,
   used_no_web_recovery |-> noWeb,
   used_local_fallback |-> localFallback,
   diagnosis |-> buildEmptyOutputDiagnosis(tr),
   first_attempt |-> IF Len(tr) > 0 THEN <<tr[1]>> ELSE <<>>,
   final_attempt |-> fd,
   trace |-> IF Len(tr) > 0 THEN <<tr[1]>> ELSE <<>>,
   error |-> errorDebug,
   timeout_label |-> IF errorDebug = <<>> THEN NoLabel ELSE errorDebug[1].timeout_label,
   timeout_ms |-> IF errorDebug = <<>> THEN 0 ELSE errorDebug[1].timeout_ms,
   attempts |-> IF errorDebug = <<>> THEN 0 ELSE errorDebug[1].attempts,
   upstream_status |-> IF errorDebug = <<>> THEN 0 ELSE errorDebug[1].upstream_status,
   upstream_error |-> IF errorDebug = <<>> THEN <<>> ELSE errorDebug[1].upstream_error]

buildResponseDebugPayload(tr, fd, recovered, noWeb, localFallback, errorDebug) ==
  [recovered_from_empty_output |-> recovered,
   used_no_web_recovery |-> noWeb,
   used_local_fallback |-> localFallback,
   diagnosis |-> buildEmptyOutputDiagnosis(tr),
   first_attempt |-> IF Len(tr) > 0 THEN <<tr[1]>> ELSE <<>>,
   final_attempt |-> fd,
   trace |-> tr,
   error |-> errorDebug,
   timeout_label |-> IF errorDebug = <<>> THEN NoLabel ELSE errorDebug[1].timeout_label,
   timeout_ms |-> IF errorDebug = <<>> THEN 0 ELSE errorDebug[1].timeout_ms,
   attempts |-> IF errorDebug = <<>> THEN 0 ELSE errorDebug[1].attempts,
   upstream_status |-> IF errorDebug = <<>> THEN 0 ELSE errorDebug[1].upstream_status,
   upstream_error |-> IF errorDebug = <<>> THEN <<>> ELSE errorDebug[1].upstream_error]

\* mutant: only the recovery flags are looked at, not the root cause
shouldLogEmptyOutputDebug_FlagsOnly(debugPayload) ==
  IF ~LOG_EMPTY_OUTPUT_TRACE THEN FALSE
  ELSE debugPayload.used_local_fallback \/ debugPayload.recovered_from_empty_output

shouldLogEmptyOutputDebug(debugPayload) ==
  IF ~LOG_EMPTY_OUTPUT_TRACE THEN FALSE
  ELSE IF debugPayload.used_local_fallback \/ debugPayload.recovered_from_empty_output THEN TRUE
  ELSE debugPayload.diagnosis # "no_empty_output_first_attempt"

\* One res.status(status).json(...) call: site is the source line of the call, keys the
\* fields its body carries; a field that is not in keys holds its type's empty value.
Reply(status, site, keys, promptText, error, recovered, noWeb, localFallback, debug) ==
  [status |-> status, site |-> site, keys |-> keys, prompt |-> promptText, error |-> error,
   recoveredFromEmptyOutput |-> recovered, usedNoWebRecovery |-> noWeb,
   usedLocalFallback |-> localFallback, debug |-> debug]

\* mutant: exhausting the steps without text is surfaced as an upstream error
FinalReply_EmptyIsError(tr, fd, out, ref, recovered, noWeb, p) ==
  Reply(IF out = <<>> THEN (IF ref # <<>> THEN 422 ELSE 502) ELSE 200, 281,
        {"prompt", "error", "requestId", "debug"}, out, ref, recovered, noWeb, FALSE,
        <<buildResponseDebugPayload(tr, fd, recovered, noWeb, FALSE, <<>>)>>)

\* mutant: a text that came with a refusal is sent together with it
FinalReply_TextWithRefusal(tr, fd, out, ref, recovered, noWeb, p) ==
  IF out = <<>>
  THEN LET debugPayload == buildResponseDebugPayload(tr, fd, TRUE, noWeb, ref = <<>>, <<>>) IN
       IF ref # <<>>
       THEN Reply(422, 248, {"error", "requestId", "debug"}, <<>>, ref, FALSE, FALSE, FALSE,
                  <<debugPayload>>)
       ELSE Reply(200, 255,
                  {"prompt", "recoveredFromEmptyOutput", "usedWebSearch", "usedModel",
                   "usedLocalFallback", "usedNoWebRecovery", "requestId", "debug"},
                  buildLocalFallbackPrompt(p), <<>>, TRUE, noWeb, TRUE, <<debugPayload>>)
  ELSE Reply(200, 281,
             {"prompt", "recoveredFromEmptyOutput", "usedWebSearch", "usedModel",
              "usedNoWebRecovery", "requestId", "debug"}
               \cup (IF ref # <<>> THEN {"error"} ELSE {}),
             out, ref, recovered, noWeb, FALSE,
             <<buildResponseDebugPayload(tr, fd, recovered, noWeb, FALSE, <<>>)>>)

\* lines 232-289: the response once no further step is requested
FinalReply(tr, fd, out, ref, recovered, noWeb, p) ==
  IF out = <<>>
  THEN LET debugPayload == buildResponseDebugPayload(tr, fd, TRUE, noWeb, ref = <<>>, <<>>) IN
       IF ref # <<>>
       THEN Reply(422, 248, {"error", "requestId", "debug"}, <<>>, ref, FALSE, FALSE, FALSE,
                  <<debugPayload>>)
       ELSE Reply(200, 255,
                  {"prompt", "recoveredFromEmptyOutput", "usedWebSearch", "usedModel",
                   "usedLocalFallback", "usedNoWebRecovery", "requestId", "debug"},
                  buildLocalFallbackPrompt(p), <<>>, TRUE, noWeb, TRUE, <<debugPayload>>)
  ELSE Reply(200, 281,
             {"prompt", "recoveredFromEmptyOutput", "usedWebSearch", "usedModel",
              "usedNoWebRecovery", "requestId", "debug"},
             out, <<>>, recovered, noWeb, FALSE,
             <<buildResponseDebugPayload(tr, fd, recovered, noWeb, FALSE, <<>>)>>)

\* mutant: a timeout is never answered with the local fallback
FallsBackOnTimeout_Never(p) == FALSE

\* line 317: a timeout is answered with the local fallback when a prompt was validated
FallsBackOnTimeout(p) == p # <<>>

\* mutant: an upstream 5xx is surfaced instead of absorbed
AbsorbsUpstreamError_Never(p, status) == FALSE

\* lines 348-359: an upstream error is answered with the local fallback
AbsorbsUpstreamError(p, status) == p # <<>> /\ status >= 500

\* mutant: the timeout debug forgets the attempts the failure carries
TimeoutErrorDebug_OneAttempt(error) ==
  [NoErrorDebug EXCEPT
     !.timeout_label = IF error.label # NoLabel THEN error.label ELSE Label("OpenAI", 0, ""),
     !.timeout_ms = IF error.timeoutMs # 0 THEN error.timeoutMs ELSE OPENAI_TIMEOUT_WEB_SEARCH_MS,
     !.attempts = 1]

\* lines 292-300: what the debug payload reports about a timeout
TimeoutErrorDebug(error) ==
  [NoErrorDebug EXCEPT
     !.timeout_label = IF error.label # NoLabel THEN error.label ELSE Label("OpenAI", 0, ""),
     !.timeout_ms = IF error.timeoutMs # 0 THEN error.timeoutMs ELSE OPENAI_TIMEOUT_WEB_SEARCH_MS,
     !.attempts = IF error.attempts # 0 THEN error.attempts ELSE 1]

\* mutant: a failure without a status is passed on with status 200
UpstreamStatus_DefaultsTo200(error) == IF error.status # 0 THEN error.status ELSE 200

\* mutant: a failure without a status counts as a client error
UpstreamStatus_DefaultsTo400(error) == IF error.status # 0 THEN error.status ELSE 400

\* line 336: Number(error?.status) || 502
UpstreamStatus(error) == IF error.status # 0 THEN error.status ELSE 502

\* mutant: the catch block reports an empty trace
CatchReply_DropsTrace(error, tr, p) ==
  IF isTimeoutError(error)
  THEN LET errorDebug == TimeoutErrorDebug(error)
           debugPayload == buildResponseDebugPayload(<<>>, <<>>, p # <<>>, FALSE, p # <<>>,
                                                     <<errorDebug>>)
       IN IF FallsBackOnTimeout(p)
          THEN Reply(200, 318,
                     {"prompt", "recoveredFromEmptyOutput", "usedWebSearch", "usedModel",
                      "usedLocalFallback", "requestId", "debug"},
                     buildLocalFallbackPrompt(p), <<>>, TRUE, FALSE, TRUE, <<debugPayload>>)
          ELSE Reply(504, 329, {"error", "requestId", "debug"}, <<>>,
                     <<"Timeout ${label} dopo ${timeoutMs}ms (tentativi: ${attempts}).">>,
                     FALSE, FALSE, FALSE, <<debugPayload>>)
  ELSE LET status == UpstreamStatus(error)
           message == redactSensitiveText(error.message)
           errorDebug == [NoErrorDebug EXCEPT !.upstream_status = status,
                                              !.upstream_error = message]
           debugPayload == buildResponseDebugPayload(<<>>, <<>>, p # <<>> /\ status >= 500, FALSE,
                                                     p # <<>> /\ status >= 500, <<errorDebug>>)
       IN IF AbsorbsUpstreamError(p, status)
          THEN Reply(200, 360,
                     {"prompt", "recoveredFromEmptyOutput", "usedWebSearch", "usedModel",
                      "usedLocalFallback", "requestId", "debug"},
                     buildLocalFallbackPrompt(p), <<>>, TRUE, FALSE, TRUE, <<debugPayload>>)
          ELSE Reply(status, 371, {"error", "requestId", "debug"}, <<>>, message,
                     FALSE, FALSE, FALSE, <<debugPayload>>)

\* lines 290-376: the response of the catch block
CatchReply(error, tr, p) ==
  IF isTimeoutError(error)
  THEN LET errorDebug == TimeoutErrorDebug(error)
           debugPayload == buildResponseDebugPayload(tr, <<>>, p # <<>>, FALSE, p # <<>>,
                                                     <<errorDebug>>)
       IN IF FallsBackOnTimeout(p)
          THEN Reply(200, 318,
                     {"prompt", "recoveredFromEmptyOutput", "usedWebSearch", "usedModel",
                      "usedLocalFallback", "requestId", "debug"},
                     buildLocalFallbackPrompt(p), <<>>, TRUE, FALSE, TRUE, <<debugPayload>>)
          ELSE Reply(504, 329, {"error", "requestId", "debug"}, <<>>,
                     <<"Timeout ${label} dopo ${timeoutMs}ms (tentativi: ${attempts}).">>,
                     FALSE, FALSE, FALSE, <<debugPayload>>)
  ELSE LET status == UpstreamStatus(error)
           message == redactSensitiveText(error.message)
           errorDebug == [NoErrorDebug EXCEPT !.upstream_status = status,
                                              !.upstream_error = message]
           debugPayload == buildResponseDebugPayload(tr, <<>>, p # <<>> /\ status >= 500, FALSE,
                                                     p # <<>> /\ status >= 500, <<errorDebug>>)
       IN IF AbsorbsUpstreamError(p, status)
          THEN Reply(200, 360,
                     {"prompt", "recoveredFromEmptyOutput", "usedWebSearch", "usedModel",
                      "usedLocalFallback", "requestId", "debug"},
                     buildLocalFallbackPrompt(p), <<>>, TRUE, FALSE, TRUE, <<debugPayload>>)
          ELSE Reply(status, 371, {"error", "requestId", "debug"}, <<>>, message,
                     FALSE, FALSE, FALSE, <<debugPayload>>)

\* the number of log events a reply causes (lines 243, 277, 313, 355)
LogEvents(reply) ==
  IF reply.debug # <<>> /\ shouldLogEmptyOutputDebug(reply.debug[1]) THEN 1 ELSE 0

\* --------------------------------------------------------------- actions
handlerLocals ==
  <<trace, lastResponse, finalDebug, output, refusal, recoveredFromEmptyOutput,
    usedNoWebRecovery>>
config == <<openai, USE_CHAT_COMPLETIONS_API, body, fnArg, fnOut, reqs>>

\* res.status(...).json(reply), after the log event the reply calls for
\* mutant: the timer is left armed
clearTimeout_Skip(pending) == pending

\* line 1323: finally { clearTimeout(timeoutHandle) }; clearing a timer that has fired
\* leaves none pending either
clearTimeout(pending) == pending - 1

\* line 1311: timeoutHandle = setTimeout(...)
setTimeout(pending) == pending + 1

\* the timers left once the withTimeout the handler was suspended in, if any, has exited
afterWithTimeout == IF pc \in {"create", "retrieve"} THEN clearTimeout(timers) ELSE timers

Respond(reply) ==
  /\ res' = <<reply>>
  /\ timers' = afterWithTimeout
  /\ logged' = logged + LogEvents(reply)
  /\ pc' = "responded"

\* the handler calls step k's request function: requestWithTimeoutRetry starts (1278-1284)
StartStep(k, prev) ==
  /\ step' = k
  /\ payload' = StepPayload(k, USE_CHAT_COMPLETIONS_API, prev)
  /\ label' = StepLabel(k, USE_CHAT_COMPLETIONS_API)
  /\ attempt' = 0
  /\ timeoutMs' = OPENAI_TIMEOUT_WEB_SEARCH_MS
  /\ lastTimeoutError' = NoError
  /\ createCalls' = 1
  /\ response' = NoResponse
  /\ waitedMs' = 0
  /\ pc' = "create"
  /\ timers' = setTimeout(afterWithTimeout)
  /\ UNCHANGED <<res, logged, caught>>

\* lines 89-117: credential check, validation, first request
\* mutant: the prompt is validated before the credential is looked at
EarlyReturn_ValidatesFirst(client, p) ==
  IF p = <<>> THEN 106
  ELSE IF Len(p) > MAX_PROMPT_LENGTH THEN 110
  ELSE IF ~client THEN 98
  ELSE 0

\* mutant: a prompt of exactly the maximum length is rejected
EarlyReturn_RejectsMaxLength(client, p) ==
  IF ~client THEN 98
  ELSE IF p = <<>> THEN 106
  ELSE IF Len(p) >= MAX_PROMPT_LENGTH THEN 110
  ELSE 0

\* lines 97-114: the early return the handler takes, named by the line of its res.status
\* call; 0 when the request goes on to the first step
EarlyReturn(client, p) ==
  IF ~client THEN 98
  ELSE IF p = <<>> THEN 106
  ELSE IF Len(p) > MAX_PROMPT_LENGTH THEN 110
  ELSE 0

HandleRequest ==
  /\ pc = "received"
  /\ LET p == normalizePrompt(body)
         site == EarlyReturn(openai, p)
     IN
     IF site = 98
     THEN /\ Respond(Reply(500, 98, {"error", "requestId"}, <<>>,
                           <<"OPENAI_API_KEY non configurata sul server.">>,
                           FALSE, FALSE, FALSE, <<>>))
          /\ UNCHANGED <<prompt, step, payload, label, attempt, timeoutMs, lastTimeoutError,
                         createCalls, response, waitedMs, caught>>
     ELSE IF site = 106
     THEN /\ prompt' = p
          /\ Respond(Reply(400, 106, {"error", "requestId"}, <<>>,
                           <<"Il campo prompt e obbligatorio.">>, FALSE, FALSE, FALSE, <<>>))
          /\ UNCHANGED <<step, payload, label, attempt, timeoutMs, lastTimeoutError,
                         createCalls, response, waitedMs, caught>>
     ELSE IF site = 110
     THEN /\ prompt' = p
          /\ Respond(Reply(400, 110, {"error", "requestId"}, <<>>,
                           <<"Prompt troppo lungo: massimo ${MAX_PROMPT_LENGTH} caratteri.">>,
                           FALSE, FALSE, FALSE, <<>>))
          /\ UNCHANGED <<step, payload, label, attempt, timeoutMs, lastTimeoutError,
                         createCalls, response, waitedMs, caught>>
     ELSE /\ prompt' = p
          /\ StartStep(1, NoResponse)
  /\ UNCHANGED <<config, handlerLocals, abandoned>>

\* mutant: the model-only steps set usedNoWebRecovery whether or not they return text
Complete_NoWebWithoutText(r) ==
  LET k == step
      reason == getIncompleteReason(lastResponse)
      trigger == IF k = 1 THEN "" ELSE IF reason # "" THEN reason ELSE "empty_output"
      tr == pushDebugTrace(trace, StepNames[k], r, trigger)
      fd == <<buildResponseDebugInfo(r)>>
      out == extractOutputText(r)
      ref == IF k = 1 \/ refusal = <<>> THEN extractRefusalText(r) ELSE refusal
      recovered == IF k = 1 THEN FALSE
                   ELSE IF k \in {2, 3} THEN out # <<>>
                   ELSE IF out # <<>> THEN TRUE ELSE recoveredFromEmptyOutput
      noWeb == IF k = 1 THEN FALSE
               ELSE IF k \in {4, 5} THEN TRUE ELSE usedNoWebRecovery
      n == NextStep(k + 1, out, ref, r)
  IN /\ lastResponse' = r
     /\ trace' = tr
     /\ finalDebug' = fd
     /\ output' = out
     /\ refusal' = ref
     /\ recoveredFromEmptyOutput' = recovered
     /\ usedNoWebRecovery' = noWeb
     /\ IF n <= 5
        THEN StartStep(n, r)
        ELSE /\ Respond(FinalReply(tr, fd, out, ref, recovered, noWeb, prompt))
             /\ UNCHANGED <<step, payload, label, attempt, timeoutMs, lastTimeoutError,
                            createCalls, response, waitedMs, caught>>
     /\ UNCHANGED <<config, prompt>>

\* the request function of the current step returned r: the handler records the step and
\* either requests the next step whose guard holds or responds (lines 118-289)
Complete(r) ==
  LET k == step
      reason == getIncompleteReason(lastResponse)
      trigger == IF k = 1 THEN "" ELSE IF reason # "" THEN reason ELSE "empty_output"
      tr == pushDebugTrace(trace, StepNames[k], r, trigger)
      fd == <<buildResponseDebugInfo(r)>>
      out == extractOutputText(r)
      ref == IF k = 1 \/ refusal = <<>> THEN extractRefusalText(r) ELSE refusal
      recovered == IF k = 1 THEN FALSE
                   ELSE IF k \in {2, 3} THEN out # <<>>
                   ELSE IF out # <<>> THEN TRUE ELSE recoveredFromEmptyOutput
      noWeb == IF k = 1 THEN FALSE
               ELSE IF k \in {4, 5} /\ out # <<>> THEN TRUE ELSE usedNoWebRecovery
      n == NextStep(k + 1, out, ref, r)
  IN /\ lastResponse' = r
     /\ trace' = tr
     /\ finalDebug' = fd
     /\ output' = out
     /\ refusal' = ref
     /\ recoveredFromEmptyOutput' = recovered
     /\ usedNoWebRecovery' = noWeb
     /\ IF n <= 5
        THEN StartStep(n, r)
        ELSE /\ Respond(FinalReply(tr, fd, out, ref, recovered, noWeb, prompt))
             /\ UNCHANGED <<step, payload, label, attempt, timeoutMs, lastTimeoutError,
                            createCalls, response, waitedMs, caught>>
     /\ UNCHANGED <<config, prompt>>

\* the error leaves requestWithTimeoutRetry and reaches the handler's catch (lines 290-376)
Throw(error) ==
  /\ caught' = error
  /\ Respond(CatchReply(error, trace, prompt))
  /\ UNCHANGED <<step, payload, label, attempt, timeoutMs, createCalls, response, waitedMs>>

\* mutant: the budget check allows two more attempts
BudgetExhausted_TwoMore(att) == att = OPENAI_TIMEOUT_RETRIES + 2

\* mutant: the budget check is off by one and allows one more attempt
BudgetExhausted_OffByOne(att) == att = OPENAI_TIMEOUT_RETRIES + 1

\* line 1291: the attempt that just timed out was the last one of the budget
BudgetExhausted(att) == att = OPENAI_TIMEOUT_RETRIES

\* mutant: the retry runs with the timeout of the attempt before it
NextTimeout_Same(t) == t

\* line 1297: timeoutMs += OPENAI_TIMEOUT_RETRY_DELTA_MS
NextTimeout(t) == t + OPENAI_TIMEOUT_RETRY_DELTA_MS

\* the request function of the current attempt rejected with error (lines 1285-1297)
Fail(error) ==
  /\ IF ~isTimeoutError(error)
     THEN /\ Throw(error)
          /\ UNCHANGED lastTimeoutError
     ELSE IF BudgetExhausted(attempt)
     THEN /\ lastTimeoutError' = [error EXCEPT !.attempts = OPENAI_TIMEOUT_RETRIES + 1]
          /\ Throw(lastTimeoutError')
     ELSE /\ lastTimeoutError' = error
          /\ timeoutMs' = NextTimeout(timeoutMs)
          /\ attempt' = attempt + 1
          /\ createCalls' = createCalls + 1
          /\ response' = NoResponse
          /\ waitedMs' = 0
          /\ pc' = "create"
          /\ timers' = setTimeout(afterWithTimeout)
          /\ UNCHANGED <<step, payload, label, caught, res, logged>>
  /\ UNCHANGED <<config, prompt, handlerLocals>>

attemptLabel == Label(label, attempt, "")

\* mutant: the poller gives up when the next sleep would reach the maximum wait
PollLoop_GivesUpEarly(r) ==
  IF isPendingResponseStatus(r.status) /\ r.id # ""
  THEN IF waitedMs + OPENAI_POLL_INTERVAL_MS >= OPENAI_POLL_MAX_WAIT_MS
       THEN Fail(PollingError(attemptLabel))
       ELSE /\ response' = r
            /\ pc' = "sleep"
            /\ timers' = afterWithTimeout
            /\ UNCHANGED <<config, prompt, handlerLocals, step, payload, label, attempt,
                           timeoutMs, lastTimeoutError, createCalls, waitedMs, caught, res,
                           logged>>
  ELSE Complete(r)

\* one evaluation of the loop of waitForResponseCompletion with response r (lines 1236-1258)
PollLoop(r) ==
  IF isPendingResponseStatus(r.status) /\ r.id # ""
  THEN IF waitedMs >= OPENAI_POLL_MAX_WAIT_MS
       THEN Fail(PollingError(attemptLabel))
       ELSE /\ response' = r
            /\ pc' = "sleep"
            /\ timers' = afterWithTimeout
            /\ UNCHANGED <<config, prompt, handlerLocals, step, payload, label, attempt,
                           timeoutMs, lastTimeoutError, createCalls, waitedMs, caught, res,
                           logged>>
  ELSE Complete(r)

\* requestOpenAI / requestChatCompletion: the create call resolves before the timer
CreateResolves ==
  /\ pc = "create"
  /\ UNCHANGED abandoned
  /\ \E r \in Responses :
       IF USE_CHAT_COMPLETIONS_API THEN Complete(r) ELSE PollLoop(r)

\* withTimeout: the timer fires before the create call settles
CreateTimerFires ==
  /\ pc = "create"
  /\ Fail(TimerError(timeoutMs, attemptLabel))
  /\ UNCHANGED abandoned

\* the create call rejects before the timer
CreateRejects ==
  /\ pc = "create"
  /\ \E e \in UpstreamErrors : Fail(e)
  /\ UNCHANGED abandoned

\* mutant: the sleep is not added to the time waited
SleepElapses_NotCounted ==
  /\ pc = "sleep"
  /\ pc' = "retrieve"
  /\ timers' = setTimeout(timers)
  /\ UNCHANGED abandoned
  /\ UNCHANGED <<config, prompt, handlerLocals, step, payload, label, attempt, timeoutMs,
                 lastTimeoutError, createCalls, response, waitedMs, caught, res, logged>>

\* await sleep(OPENAI_POLL_INTERVAL_MS); waitedMs += ...; the retrieve call is issued
SleepElapses ==
  /\ pc = "sleep"
  /\ waitedMs' = waitedMs + OPENAI_POLL_INTERVAL_MS
  /\ pc' = "retrieve"
  /\ timers' = setTimeout(timers)
  /\ UNCHANGED abandoned
  /\ UNCHANGED <<config, prompt, handlerLocals, step, payload, label, attempt, timeoutMs,
                 lastTimeoutError, createCalls, response, caught, res, logged>>

RetrieveResolves ==
  /\ pc = "retrieve"
  /\ UNCHANGED abandoned
  /\ \E r \in Responses : PollLoop(r)

RetrieveTimerFires ==
  /\ pc = "retrieve"
  /\ Fail(TimerError(OPENAI_TIMEOUT_WEB_SEARCH_MS, Label(label, attempt, " retrieve")))
  /\ UNCHANGED abandoned

RetrieveRejects ==
  /\ pc = "retrieve"
  /\ \E e \in UpstreamErrors : Fail(e)
  /\ UNCHANGED abandoned

Next ==
  \/ HandleRequest
  \/ CreateResolves
  \/ CreateTimerFires
  \/ CreateRejects
  \/ SleepElapses
  \/ RetrieveResolves
  \/ RetrieveTimerFires
  \/ RetrieveRejects

Spec == Init /\ [][Next]_vars

\* Timers fire: a pending setTimeout of withTimeout (lines 1310-1318) or of sleep
\* (line 1249) runs its callback unless the call it guards settles first, and the handler
\* runs once the request has arrived.
TimerFires == HandleRequest \/ CreateTimerFires \/ SleepElapses \/ RetrieveTimerFires

\* the states in which TimerFires is enabled: the handler has not run yet, or a timer of
\* withTimeout or of sleep is pending
Armed == pc \in {"received", "create", "sleep", "retrieve"}

\* weak fairness of TimerFires, its enabling condition spelled out as Armed
Fairness == []<>(~Armed) \/ []<><<TimerFires>>_vars

SpecFair == Spec /\ Fairness

\* --------------------------------------------------------------- abandoned calls
\* The handler with the upstream calls it gives up at a timeout followed until they
\* settle: withTimeout's timer wins the race while the call goes on remotely.
InitLate ==
  /\ Init
  /\ openai
  /\ ~USE_CHAT_COMPLETIONS_API
  /\ <<"a", CR, NL, NL, "b">> = body

CreateGivenUp ==
  /\ pc = "create"
  /\ Fail(TimerError(timeoutMs, attemptLabel))
  /\ abandoned' = abandoned + 1

RetrieveGivenUp ==
  /\ pc = "retrieve"
  /\ Fail(TimerError(OPENAI_TIMEOUT_WEB_SEARCH_MS, Label(label, attempt, " retrieve")))
  /\ abandoned' = abandoned + 1

\* mutant: the late result is taken for the result of the call in flight
AbandonedSettles_Consumed ==
  /\ abandoned > 0
  /\ abandoned' = abandoned - 1
  /\ pc \in {"create", "retrieve"}
  /\ \E r \in Responses : PollLoop(r)

\* a call the handler gave up at a timeout resolves or rejects at last: the race it was
\* part of is settled, so its result is dropped (lines 1320-1324)
AbandonedSettles ==
  /\ abandoned > 0
  /\ abandoned' = abandoned - 1
  /\ UNCHANGED <<config, prompt, handlerLocals, pc, step, payload, label, attempt, timeoutMs,
                 lastTimeoutError, createCalls, response, waitedMs, caught, res, logged,
                 timers>>

NextLate ==
  \/ HandleRequest
  \/ CreateResolves
  \/ CreateGivenUp
  \/ CreateRejects
  \/ SleepElapses
  \/ RetrieveResolves
  \/ RetrieveGivenUp
  \/ RetrieveRejects
  \/ AbandonedSettles

SpecLate == InitLate /\ [][NextLate]_vars

\* --------------------------------------------------------------- helpers on their own
\* The handler's variables while a helper function is applied outside a request.
Idle ==
  /\ openai = TRUE
  /\ USE_CHAT_COMPLETIONS_API = FALSE
  /\ body = <<>>
  /\ prompt = <<>>
  /\ step = 0
  /\ payload = NoPayload
  /\ label = ""
  /\ attempt = 0
  /\ timeoutMs = 0
  /\ lastTimeoutError = NoError
  /\ createCalls = 0
  /\ response = NoResponse
  /\ waitedMs = 0
  /\ lastResponse = NoResponse
  /\ finalDebug = <<>>
  /\ output = <<>>
  /\ refusal = <<>>
  /\ recoveredFromEmptyOutput = FALSE
  /\ usedNoWebRecovery = FALSE
  /\ caught = NoError
  /\ res = <<>>
  /\ logged = 0
  /\ timers = 0
  /\ abandoned = 0

idleVars ==
  <<openai, USE_CHAT_COMPLETIONS_API, body, step, payload, label, attempt, timeoutMs,
    lastTimeoutError, createCalls, response, waitedMs, lastResponse, finalDebug, output,
    refusal, recoveredFromEmptyOutput, usedNoWebRecovery, caught, res, logged, timers,
    abandoned>>

helperFrame == <<idleVars, reqs>>

\* normalizePrompt applied to a string, then to its own result
MaxInputLen == 5
InputAlphabet == {CR, NL, " ", "a"}
RECURSIVE StringsUpTo(_)
StringsUpTo(n) ==
  IF n = 0 THEN {<<>>}
  ELSE LET shorter == StringsUpTo(n - 1)
       IN shorter \cup {Append(t, c) : t \in shorter, c \in InputAlphabet}
InputStrings == StringsUpTo(MaxInputLen)

InitNormalize ==
  /\ Idle
  /\ reqs = <<>>
  /\ trace = <<>>
  /\ pc = "fn"
  /\ fnArg \in InputStrings
  /\ fnOut = <<>>

Normalize ==
  /\ pc = "fn"
  /\ fnOut' = <<normalizePrompt(fnArg)>>
  /\ pc' = "once"
  /\ UNCHANGED <<helperFrame, prompt, trace, fnArg>>

NormalizeAgain ==
  /\ pc = "once"
  /\ fnOut' = Append(fnOut, normalizePrompt(fnOut[1]))
  /\ pc' = "twice"
  /\ UNCHANGED <<helperFrame, prompt, trace, fnArg>>

NextNormalize == Normalize \/ NormalizeAgain

SpecNormalize == InitNormalize /\ [][NextNormalize]_vars

\* buildLocalFallbackPrompt applied to a validated prompt
FallbackWords ==
  { <<"D", "i", "e", "t", "a">>, <<"d", "i", "m", "a", "g", "r", "i", "r", "e">>,
    <<"s", "e", "o">>, <<"a", "p", "i">>, <<"e", "s", "a", "m", "e">>, <<"a", "b">> }
FallbackSeparators == { <<" ">>, <<" ", " ">>, <<NL>>, <<NL, NL>>, <<"\t">> }
FallbackInputs ==
  FallbackWords \cup {w \o sep \o v : w \in FallbackWords, sep \in FallbackSeparators,
                                      v \in FallbackWords}

InitFallback ==
  /\ Idle
  /\ reqs = <<>>
  /\ trace = <<>>
  /\ pc = "fn"
  /\ fnArg \in FallbackInputs
  /\ fnOut = <<>>

ApplyFallback ==
  /\ pc = "fn"
  /\ prompt' = normalizePrompt(fnArg)
  /\ fnOut' = <<buildLocalFallbackPrompt(prompt')>>
  /\ pc' = "built"
  /\ UNCHANGED <<helperFrame, trace, fnArg>>

NextFallback == ApplyFallback

SpecFallback == InitFallback /\ [][NextFallback]_vars

\* buildResponseDebugPayload applied to a trace of recorded attempts
MaxTraceLen == 2
RReasoningOnly ==
  Response("r5", "completed", "", "none", <<>>, <<>>, <<ToolItem("reasoning")>>, <<>>)
RNoItems == Response("r6", "completed", "", "none", <<>>, <<>>, <<>>, <<>>)
RecordedResponses == Responses \cup {RReasoningOnly, RNoItems}

InitDiagnosis ==
  /\ Idle
  /\ reqs = <<>>
  /\ trace = <<>>
  /\ pc = "fn"
  /\ fnArg = <<>>
  /\ fnOut = <<>>

RecordAttempt ==
  /\ pc = "fn"
  /\ Len(trace) < MaxTraceLen
  /\ \E r \in RecordedResponses :
       trace' = pushDebugTrace(trace, StepNames[Len(trace) + 1], r, "")
  /\ UNCHANGED <<helperFrame, prompt, pc, fnArg, fnOut>>

BuildDebugPayload ==
  /\ pc = "fn"
  /\ fnOut' = <<buildResponseDebugPayload(trace, <<>>, FALSE, FALSE, FALSE, <<>>)>>
  /\ pc' = "built"
  /\ UNCHANGED <<helperFrame, prompt, trace, fnArg>>

NextDiagnosis == RecordAttempt \/ BuildDebugPayload

SpecDiagnosis == InitDiagnosis /\ [][NextDiagnosis]_vars

\* extractOutputText applied to responses that combine the shapes it reads
OutputTextFields ==
  { [kind |-> "none", str |-> <<>>, arr |-> <<>>],
    [kind |-> "string", str |-> <<" ">>, arr |-> <<>>],
    [kind |-> "string", str |-> <<" ", "F", NL>>, arr |-> <<>>],
    [kind |-> "array", str |-> <<>>, arr |-> <<StrPart(<<" ">>), ObjPart("", <<NL>>, <<>>)>>],
    [kind |-> "array", str |-> <<>>, arr |-> <<StrPart(<<"S", " ">>), StrPart(<<>>), ValPart(<<" ", "V">>)>>],
    [kind |-> "array", str |-> <<>>, arr |-> <<>>] }

OutputFields ==
  { <<>>,
    <<ToolItem("web_search_call")>>,
    <<ToolItem("reasoning"), MessageItem(<<ObjPart("output_text", <<" ", "O">>, <<>>)>>)>>,
    <<Item("message", <<"I", " ">>, <<>>, "string", <<"C">>, <<>>)>>,
    <<MessageItem(<<StrPart(<<" ">>), ObjPart("refusal", <<>>, TextR)>>)>> }

ChoicesFields ==
  { <<>>,
    <<Choice("string", <<" ", "T">>, <<>>, <<>>)>>,
    <<Choice("string", <<" ">>, <<>>, TextR)>>,
    <<Choice("array", <<>>, <<StrPart(<<"P", " ">>), ObjPart("", <<"Q">>, <<>>)>>, <<>>)>> }

ExtractInputs ==
  { Response("r1", "completed", "", ot.kind, ot.str, ot.arr, o, c) :
      ot \in OutputTextFields, o \in OutputFields, c \in ChoicesFields }

InitExtract ==
  /\ Idle
  /\ reqs = <<>>
  /\ trace = <<>>
  /\ pc = "fn"
  /\ fnArg \in ExtractInputs
  /\ fnOut = <<>>

ApplyExtract ==
  /\ pc = "fn"
  /\ fnOut' = <<extractOutputText(fnArg)>>
  /\ pc' = "built"
  /\ UNCHANGED <<helperFrame, prompt, trace, fnArg>>

NextExtract == ApplyExtract

SpecExtract == InitExtract /\ [][NextExtract]_vars

\* --------------------------------------------------------------- concurrent requests
\* Several requests in flight at once. Each run of the handler has its own requestId, trace,
\* prompt, lastResponse, finalDebug, output, refusal and flags (lines 90-93, 116-121); got
\* records the responses and failure the provider gave to that request's calls.
Requests == {"A", "B"}

RequestPrompt(i) == IF i = "A" THEN <<"D", "i", "e", "t", "a">> ELSE <<"a", NL, NL, "b">>

HandlerState(p) ==
  [pc |-> "received", prompt |-> p, step |-> 0, trace |-> <<>>, lastResponse |-> NoResponse,
   finalDebug |-> <<>>, output |-> <<>>, refusal |-> <<>>, recoveredFromEmptyOutput |-> FALSE,
   usedNoWebRecovery |-> FALSE, caught |-> NoError, res |-> <<>>, got |-> <<>>]

\* the handler of one request once the request function of its step has returned r
\* (lines 118-289)
AfterStep(st, r) ==
  LET k == st.step
      reason == getIncompleteReason(st.lastResponse)
      trigger == IF k = 1 THEN "" ELSE IF reason # "" THEN reason ELSE "empty_output"
      tr == pushDebugTrace(st.trace, StepNames[k], r, trigger)
      fd == <<buildResponseDebugInfo(r)>>
      out == extractOutputText(r)
      ref == IF k = 1 \/ st.refusal = <<>> THEN extractRefusalText(r) ELSE st.refusal
      recovered == IF k = 1 THEN FALSE
                   ELSE IF k \in {2, 3} THEN out # <<>>
                   ELSE IF out # <<>> THEN TRUE ELSE st.recoveredFromEmptyOutput
      noWeb == IF k = 1 THEN FALSE
               ELSE IF k \in {4, 5} /\ out # <<>> THEN TRUE ELSE st.usedNoWebRecovery
      n == NextStep(k + 1, out, ref, r)
  IN [st EXCEPT !.trace = tr, !.lastResponse = r, !.finalDebug = fd, !.output = out,
                !.refusal = ref, !.recoveredFromEmptyOutput = recovered,
                !.usedNoWebRecovery = noWeb, !.got = Append(st.got, r),
                !.step = IF n <= 5 THEN n ELSE k,
                !.pc = IF n <= 5 THEN "create" ELSE "responded",
                !.res = IF n <= 5 THEN <<>>
                        ELSE <<FinalReply(tr, fd, out, ref, recovered, noWeb, st.prompt)>>]

\* the handler of one request once the request function of its step has thrown error
\* (lines 290-376)
AfterThrow(st, error) ==
  [st EXCEPT !.caught = error, !.pc = "responded",
             !.res = <<CatchReply(error, st.trace, st.prompt)>>]

\* mutant: the trace is one array shared by every request
traceOwner_Shared(i) == "A"

\* line 92: const trace = [] is declared inside the handler, one per request
traceOwner(i) == i

\* the locals request i's handler reads: its own, and the trace it writes to
HandlerLocals(i) == [reqs[i] EXCEPT !.trace = reqs[traceOwner(i)].trace]

\* request i's handler leaves its locals as new, its trace written where it belongs
HandlerStep(i, new) ==
  LET t == traceOwner(i)
  IN reqs' = [j \in Requests |->
                IF j = t THEN (IF j = i THEN new ELSE [reqs[j] EXCEPT !.trace = new.trace])
                ELSE IF j = i THEN [new EXCEPT !.trace = reqs[i].trace]
                ELSE reqs[j]]

InitConcurrent ==
  /\ Idle
  /\ trace = <<>>
  /\ pc = "fn"
  /\ fnArg = <<>>
  /\ fnOut = <<>>
  /\ reqs = [i \in Requests |-> HandlerState(RequestPrompt(i))]

concurrentFrame == <<idleVars, prompt, trace, pc, fnArg, fnOut>>

\* request i arrives with a valid prompt and its first step is requested
Arrive(i) ==
  /\ reqs[i].pc = "received"
  /\ reqs' = [reqs EXCEPT ![i].pc = "create", ![i].step = 1]
  /\ UNCHANGED concurrentFrame

\* the request function of request i's step returns r
Returns(i, r) ==
  /\ reqs[i].pc = "create"
  /\ HandlerStep(i, AfterStep(HandlerLocals(i), r))
  /\ UNCHANGED concurrentFrame

\* the request function of request i's step throws error
Throws(i, error) ==
  /\ reqs[i].pc = "create"
  /\ HandlerStep(i, AfterThrow(HandlerLocals(i), error))
  /\ UNCHANGED concurrentFrame

ConcurrentResponses == {RText, RRefusal, REmptyTool, RInProgressNoId}

NextConcurrent ==
  \/ \E i \in Requests : Arrive(i)
  \/ \E i \in Requests : \E r \in ConcurrentResponses : Returns(i, r)
  \/ \E i \in Requests : Throws(i, EServer)

SpecConcurrent == InitConcurrent /\ [][NextConcurrent]_vars

\* --------------------------------------------------------------- properties
Responded == pc = "responded"
\* the prompt passed validation: the handler went on to request the first step
Validated == step >= 1
TheReply == res[1]

\* a timeout failure: raised by a timer of this server, or a provider failure whose
\* message says the request timed out
IsTimeoutFailure(e) ==
  \/ e.code = "TIMEOUT"
  \/ \E i \in 1..Len(e.message) : e.message[i] \in {"timeout", "Timeout", "timed out", "Timed out"}

StepIndex(name) == CHOOSE k \in 1..5 : StepNames[k] = name
EntryHasText(e) == e.info.output_text_length > 0
EntryHasRefusal(e) == e.info.refusal_length > 0
\* every step that was issued returned a response with neither text nor refusal
AllStepsEmpty ==
  /\ trace # <<>>
  /\ caught = NoError
  /\ \A i \in 1..Len(trace) : ~EntryHasText(trace[i]) /\ ~EntryHasRefusal(trace[i])

\* C1 (as stated): once the prompt has passed validation, the status of the response is
\* 200 or 422, whatever the upstream does, errors of any status included.
C1_Original == Responded /\ Validated => TheReply.status \in {200, 422}

\* C1 (amended): once the prompt has passed validation, the status of the response is 200
\* or 422, or it is the status of a non-timeout upstream error whose status is below 500.
C1_Amended ==
  Responded /\ Validated =>
    \/ TheReply.status \in {200, 422}
    \/ /\ caught # NoError
       /\ ~IsTimeoutFailure(caught)
       /\ caught.status # 0
       /\ caught.status < 500
       /\ TheReply.status = caught.status

\* a step failed with a 5xx or status-less upstream error and the response is 200
C1_Witness ==
  /\ Responded /\ Validated
  /\ caught \in {EServer, ENoStatus}
  /\ TheReply.status = 200

\* C2: once the prompt has passed validation the response status is never 502 or 504,
\* whichever step times out or fails; the 504 call of the timeout branch is never made.
C2_Never502Or504 ==
  Responded /\ Validated => TheReply.status \notin {502, 504} /\ TheReply.site # 329

\* a step exhausted its retries with timeouts and the response was sent
C2_Witness ==
  /\ Responded /\ Validated
  /\ IsTimeoutFailure(caught)
  /\ caught.attempts = OPENAI_TIMEOUT_RETRIES + 1

\* C3: once a recorded step has a non-empty extracted refusal, nothing more is requested
\* upstream: that step is the last of the trace, and the response is 422 with that
\* refusal as its error.
C3_RefusalShortCircuits ==
  \A i \in 1..Len(trace) :
    EntryHasRefusal(trace[i]) =>
      /\ i = Len(trace)
      /\ Responded
      /\ TheReply.status = 422
      /\ TheReply.error = refusal

\* C4: a step is recorded after another step only if the step recorded just before it had
\* an empty extracted text and an empty extracted refusal.
C4_EscalatesOnlyWhenEmpty ==
  \A i \in 2..Len(trace) : ~EntryHasText(trace[i - 1]) /\ ~EntryHasRefusal(trace[i - 1])

\* the shape of a trace: steps of the fixed order, strictly ascending, at most five
C5_TraceShape ==
  /\ Len(trace) <= 5
  /\ \A i \in 1..Len(trace) : trace[i].step \in {StepNames[k] : k \in 1..5}
  /\ trace # <<>> => trace[1].step = "initial_web_search"
  /\ \A i \in 1..Len(trace) : \A j \in 1..Len(trace) :
       i < j => StepIndex(trace[i].step) < StepIndex(trace[j].step)

\* C5: the trace is a duplicate-free subsequence of the five steps in their fixed order,
\* starting with initial_web_search when non-empty, of length at most 5, and it only grows
\* by appending: recorded entries are never changed or removed.
C5_TraceOrderedAppendOnly ==
  /\ []C5_TraceShape
  /\ [][\/ trace' = trace
        \/ /\ Len(trace') = Len(trace) + 1
           /\ SubSeq(trace', 1, Len(trace)) = trace]_vars

\* a trace that skipped finalize_from_previous_web_search and went on to the model-only steps
C5_Witness ==
  /\ Len(trace) = 4
  /\ trace[3].step = "retry_model_only"
  /\ trace[4].step = "finalize_from_previous_model_only"

\* C6: when a recorded step has non-empty extracted text, it is the last step, and the
\* response is 200 with that text as prompt, recoveredFromEmptyOutput true exactly when the
\* step is not the first, usedNoWebRecovery true exactly when it is one of the two
\* model-only steps, and no usedLocalFallback field.
C6_TextShortCircuits ==
  \A i \in 1..Len(trace) :
    EntryHasText(trace[i]) =>
      /\ i = Len(trace)
      /\ Responded
      /\ TheReply.status = 200
      /\ TheReply.prompt = extractOutputText(lastResponse)
      /\ Len(TheReply.prompt) = trace[i].info.output_text_length
      /\ TheReply.recoveredFromEmptyOutput = (StepIndex(trace[i].step) > 1)
      /\ TheReply.usedNoWebRecovery = (StepIndex(trace[i].step) \in {4, 5})
      /\ "usedLocalFallback" \notin TheReply.keys
      /\ (i = 1 => ~TheReply.recoveredFromEmptyOutput)
      /\ (trace[i].step = "retry_web_search_direct_text" =>
            i = 2 /\ TheReply.recoveredFromEmptyOutput /\ ~TheReply.usedNoWebRecovery)

\* text came with the second attempt
C6_Witness ==
  /\ Responded
  /\ Len(trace) = 2
  /\ ~EntryHasText(trace[1])
  /\ EntryHasText(trace[2])
  /\ TheReply.prompt = TextT

\* C7: when every issued step returned neither text nor refusal and none threw, the
\* response is 200 with usedLocalFallback true and the local fallback prompt of the
\* validated prompt, and it carries no error.
C7_EmptyGivesLocalFallback ==
  Responded /\ AllStepsEmpty =>
    /\ TheReply.status = 200
    /\ "usedLocalFallback" \in TheReply.keys
    /\ TheReply.usedLocalFallback
    /\ TheReply.prompt = buildLocalFallbackPrompt(prompt)
    /\ "error" \notin TheReply.keys

\* the steps ran out without text or refusal for the prompt " Dieta"
C7_Witness ==
  /\ Responded /\ AllStepsEmpty
  /\ prompt = <<"D", "i", "e", "t", "a">>
  /\ TheReply.prompt[1] = "[health: ruolo, obiettivo]"

\* the number of the two retry steps of the trace whose response carries an id
RetryIds ==
  Cardinality({i \in 1..Len(trace) :
                 /\ trace[i].step \in {"retry_web_search_direct_text", "retry_model_only"}
                 /\ trace[i].info.response_id # ""})

\* C8 (as stated): when every step returned neither text nor refusal, the trace of the
\* local-fallback response has length 5.
C8_Original == Responded /\ AllStepsEmpty => Len(trace) = 5

\* C8 (amended): when every step returned neither text nor refusal, the trace of the
\* local-fallback response holds the three steps initial_web_search,
\* retry_web_search_direct_text and retry_model_only, and a finalize step after each of the
\* two retries whose response carries a non-empty id: length 5 when both do.
C8_Amended ==
  Responded /\ AllStepsEmpty =>
    /\ Len(trace) = 3 + RetryIds
    /\ \A n \in {"initial_web_search", "retry_web_search_direct_text", "retry_model_only"} :
         \E i \in 1..Len(trace) : trace[i].step = n
    /\ \A i \in 1..Len(trace) :
         trace[i].step \in {"retry_web_search_direct_text", "retry_model_only"} =>
           (trace[i].info.response_id # "" <=>
              i < Len(trace) /\ StepIndex(trace[i + 1].step) = StepIndex(trace[i].step) + 1)

\* all five steps ran and returned nothing
C8_Witness ==
  /\ Responded /\ AllStepsEmpty
  /\ Len(trace) = 5
  /\ TheReply.usedLocalFallback

\* C9: one invocation of the Retrying Invoker never makes more than N+1 attempts, and when
\* it raises a timeout failure it has made exactly N+1 create calls and the failure (and
\* the debug payload) reports attempts = N+1.
C9_RetryBudget ==
  /\ attempt \in 0..OPENAI_TIMEOUT_RETRIES
  /\ createCalls <= OPENAI_TIMEOUT_RETRIES + 1
  /\ (step >= 1 => createCalls = attempt + 1)
  /\ (Responded /\ caught # NoError /\ IsTimeoutFailure(caught) =>
        /\ createCalls = OPENAI_TIMEOUT_RETRIES + 1
        /\ attempt = OPENAI_TIMEOUT_RETRIES
        /\ caught.attempts = OPENAI_TIMEOUT_RETRIES + 1
        /\ TheReply.debug[1].attempts = OPENAI_TIMEOUT_RETRIES + 1)

\* the first step timed out three times with the timer of withTimeout
C9_Witness ==
  /\ Responded
  /\ caught.code = "TIMEOUT"
  /\ caught.label = Label("OpenAI+web_search", 2, "")
  /\ createCalls = 3
  /\ trace = <<>>

\* C10: a retry happens only after a timeout failure; a failure that is not a timeout
\* reaches the handler at once and unchanged (no attempts annotation), and no step is
\* requested after it.
C10_OnlyTimeoutsRetry ==
  /\ (attempt > 0 => IsTimeoutFailure(lastTimeoutError))
  /\ (caught # NoError /\ ~IsTimeoutFailure(caught) =>
        /\ caught \in UpstreamErrors
        /\ Responded
        /\ \A i \in 1..Len(trace) : StepIndex(trace[i].step) < step)
  /\ (caught # NoError => Responded)

\* the second attempt of a later step failed with an authentication error
C10_Witness ==
  /\ caught = EAuth
  /\ attempt = 1
  /\ step = 2
  /\ Responded
  /\ TheReply.status = 401

\* C11: when a step of a validated request exhausts its retry budget with timeouts, the
\* response is HTTP 200 with usedLocalFallback = true and the locally built prompt, and
\* its debug payload reports the label and the timeout of the attempt that failed last and
\* attempts = N+1.
C11_TimeoutGivesLocalFallback ==
  Responded /\ Validated /\ IsTimeoutFailure(caught) =>
    /\ TheReply.status = 200
    /\ TheReply.usedLocalFallback /\ "usedLocalFallback" \in TheReply.keys
    /\ "prompt" \in TheReply.keys /\ "error" \notin TheReply.keys
    /\ TheReply.prompt = buildLocalFallbackPrompt(prompt)
    /\ TheReply.debug # <<>>
    /\ TheReply.debug[1].used_local_fallback
    /\ TheReply.debug[1].attempts = OPENAI_TIMEOUT_RETRIES + 1
    /\ attempt = OPENAI_TIMEOUT_RETRIES
    /\ IF caught.code = "TIMEOUT"
       THEN /\ TheReply.debug[1].timeout_label.base = StepLabel(step, USE_CHAT_COMPLETIONS_API)
            /\ TheReply.debug[1].timeout_label.retry = OPENAI_TIMEOUT_RETRIES
            /\ TheReply.debug[1].timeout_ms = caught.timeoutMs
            /\ caught.timeoutMs \in {timeoutMs, OPENAI_POLL_MAX_WAIT_MS,
                                     OPENAI_TIMEOUT_WEB_SEARCH_MS}
       ELSE /\ TheReply.debug[1].timeout_label = Label("OpenAI", 0, "")
            /\ TheReply.debug[1].timeout_ms = OPENAI_TIMEOUT_WEB_SEARCH_MS

\* the second step's last attempt ran out of polling time
C11_Witness ==
  /\ Responded
  /\ step = 2
  /\ caught.code = "TIMEOUT"
  /\ caught.label.suffix = " polling"
  /\ TheReply.debug[1].timeout_ms = OPENAI_POLL_MAX_WAIT_MS
  /\ TheReply.debug[1].attempts = OPENAI_TIMEOUT_RETRIES + 1
  /\ TheReply.usedLocalFallback

\* C12: when a step of a validated request fails with an error that is not a timeout and
\* whose status is 500 or more, or that has no status at all, the response is HTTP 200
\* with the local fallback prompt, never an error status.
C12_ServerErrorGivesLocalFallback ==
  Responded /\ Validated /\ caught # NoError /\ ~IsTimeoutFailure(caught)
    /\ (caught.status = 0 \/ caught.status >= 500) =>
      /\ TheReply.status = 200
      /\ TheReply.usedLocalFallback /\ "usedLocalFallback" \in TheReply.keys
      /\ "prompt" \in TheReply.keys /\ "error" \notin TheReply.keys
      /\ TheReply.prompt = buildLocalFallbackPrompt(prompt)
      /\ TheReply.debug # <<>>
      /\ TheReply.debug[1].used_local_fallback
      /\ TheReply.debug[1].upstream_status = (IF caught.status = 0 THEN 502 ELSE caught.status)

\* a connection failure without a status, after two recorded steps
C12_Witness ==
  /\ Responded
  /\ caught = ENoStatus
  /\ Len(trace) = 2
  /\ TheReply.status = 200
  /\ TheReply.debug[1].upstream_status = 502

\* C13: when a step fails with an error that is not a timeout and whose status is below
\* 500, the response has exactly that status, its error field is the upstream message
\* after redaction (no credential of the message is left in it, the rest of the message is
\* unchanged), and it carries no fallback prompt.
C13_ClientErrorPassesThroughRedacted ==
  Responded /\ Validated /\ caught # NoError /\ ~IsTimeoutFailure(caught)
    /\ caught.status > 0 /\ caught.status < 500 =>
      /\ TheReply.status = caught.status
      /\ "error" \in TheReply.keys
      /\ "prompt" \notin TheReply.keys /\ TheReply.prompt = <<>>
      /\ "usedLocalFallback" \notin TheReply.keys /\ ~TheReply.usedLocalFallback
      /\ Len(TheReply.error) = Len(caught.message)
      /\ \A i \in 1..Len(caught.message) :
           /\ TheReply.error[i] \notin SecretFragments
           /\ IF i > 1 /\ caught.message[i - 1] \in ApiKeyPrefixes
              THEN TheReply.error[i] = "***REDACTED***"
              ELSE IF caught.message[i] \in SecretFragments
              THEN TheReply.error[i] = "sk-***REDACTED***"
              ELSE TheReply.error[i] = caught.message[i]
      /\ TheReply.debug # <<>> /\ TheReply.debug[1].upstream_error = TheReply.error

\* a 429 whose message quotes the key, at the model-only retry
C13_Witness ==
  /\ Responded
  /\ caught = EQuota
  /\ step = 4
  /\ TheReply.status = 429
  /\ TheReply.error = <<"429 Quota exceeded for key ", "sk-***REDACTED***", ".">>

C15_NoCredentialGives500 ==
  ~openai /\ pc # "received" =>
    /\ Responded
    /\ TheReply.status = 500
    /\ TheReply.site = 98
    /\ createCalls = 0 /\ step = 0 /\ trace = <<>>

\* a body that validation would have rejected
C15_Witness ==
  /\ ~openai /\ Responded
  /\ body = NotAString
  /\ TheReply.status = 500

\* the rules of the decision table, in order, for a recorded attempt
DiagnosisRules(info) ==
  << [when |-> info.has_output_text, cause |-> "no_empty_output_first_attempt"],
     [when |-> info.has_refusal, cause |-> "first_attempt_refusal"],
     [when |-> info.incomplete_reason = "max_output_tokens",
      cause |-> "max_output_tokens_reached"],
     [when |-> info.status \notin {"", "completed"}, cause |-> "first_attempt_not_completed"],
     [when |-> info.has_web_search_call, cause |-> "web_search_without_final_text"],
     [when |-> info.output_count = 0, cause |-> "first_attempt_no_output_items"],
     [when |-> TRUE, cause |-> "first_attempt_non_text_output"] >>

FirstMatchingRule(rules) ==
  rules[CHOOSE i \in 1..Len(rules) :
          rules[i].when /\ \A j \in 1..(i - 1) : ~rules[j].when]

\* C16: the diagnosis of a debug payload is the cause of the first rule of the decision
\* table that the first trace entry matches (missing_first_attempt_trace for an empty
\* trace), whatever the later entries are.
C16_DiagnosisFollowsTable ==
  pc = "built" =>
    fnOut[1].diagnosis =
      IF trace = <<>> THEN "missing_first_attempt_trace"
      ELSE FirstMatchingRule(DiagnosisRules(trace[1].info)).cause

\* a first attempt cut at the token limit, followed by one that has text
C16_Witness ==
  /\ pc = "built"
  /\ Len(trace) = 2
  /\ trace[1].info.incomplete_reason = "max_output_tokens"
  /\ trace[1].info.status = "incomplete"
  /\ trace[2].info.has_output_text
  /\ fnOut[1].diagnosis = "max_output_tokens_reached"

\* the outcome variants a response can be
IsText(r) ==
  /\ r.status = 200 /\ ~r.usedLocalFallback
  /\ "prompt" \in r.keys /\ r.prompt # <<>>
  /\ "error" \notin r.keys /\ r.error = <<>>
IsRefusal(r) ==
  /\ r.status = 422 /\ caught = NoError
  /\ "error" \in r.keys /\ r.error # <<>>
  /\ "prompt" \notin r.keys /\ r.prompt = <<>>
IsLocalFallback(r) ==
  /\ r.status = 200 /\ r.usedLocalFallback
  /\ "prompt" \in r.keys /\ r.prompt # <<>>
  /\ "error" \notin r.keys /\ r.error = <<>>
IsUpstreamError(r) ==
  /\ r.status >= 400 /\ caught # NoError
  /\ "error" \in r.keys /\ r.error # <<>>
  /\ "prompt" \notin r.keys /\ r.prompt = <<>>
Variants(r) ==
  {v \in {"Text", "Refusal", "LocalFallback", "UpstreamError"} :
     \/ v = "Text" /\ IsText(r)
     \/ v = "Refusal" /\ IsRefusal(r)
     \/ v = "LocalFallback" /\ IsLocalFallback(r)
     \/ v = "UpstreamError" /\ IsUpstreamError(r)}

C17_OneVariant ==
  /\ Len(res) <= 1
  /\ Responded <=> Len(res) = 1
  /\ Responded =>
       /\ ~("prompt" \in TheReply.keys /\ "error" \in TheReply.keys)
       /\ (TheReply.prompt = <<>> \/ TheReply.error = <<>>)
  /\ Responded /\ Validated => Cardinality(Variants(TheReply)) = 1

C18_NormalizeIdempotent ==
  pc = "twice" => fnOut[2] = fnOut[1]

\* the characters of p in order, each run of whitespace counted once and read as a space
SingleSpaced(p) ==
  LET kept == {i \in 1..Len(p) : ~IsWs(p[i]) \/ i = 1 \/ ~IsWs(p[i - 1])}
      at(k) == CHOOSE i \in kept : Cardinality({j \in kept : j < i}) = k - 1
  IN [k \in 1..Cardinality(kept) |-> IF IsWs(p[at(k)]) THEN " " ELSE p[at(k)]]

MentionsDiet(p) ==
  \/ Includes(ToLowerCase(p), <<"d", "i", "e", "t", "a">>)
  \/ Includes(ToLowerCase(p), <<"d", "i", "m", "a", "g", "r">>)

\* C19 as stated: the fallback built for a validated prompt contains the prompt character
\* for character, and a prompt that mentions a diet gets the health template.
C19_Original ==
  pc = "built" =>
    /\ Includes(fnOut[1], prompt)
    /\ MentionsDiet(prompt) => fnOut[1][1] = "[health: ruolo, obiettivo]"

\* C19: the fallback built for a validated prompt contains the prompt with every run of
\* whitespace replaced by one space (so character for character when the prompt has only
\* single spaces), and a prompt that mentions a diet gets the health template.
C19_Amended ==
  pc = "built" =>
    /\ Includes(fnOut[1], SingleSpaced(prompt))
    /\ (\A i \in 1..Len(prompt) : IsWs(prompt[i]) => prompt[i] = " " /\ ~IsWs(prompt[i + 1]))
         => Includes(fnOut[1], prompt)
    /\ MentionsDiet(prompt) => fnOut[1][1] = "[health: ruolo, obiettivo]"
    /\ ~MentionsDiet(prompt) => fnOut[1][1] # "[health: ruolo, obiettivo]"

\* a diet request typed on two lines
C19_Witness ==
  /\ pc = "built"
  /\ prompt = <<"D", "i", "e", "t", "a", NL, NL, "s", "e", "o">>
  /\ ~Includes(fnOut[1], prompt)
  /\ Includes(fnOut[1], <<"D", "i", "e", "t", "a", " ", "s", "e", "o">>)
  /\ fnOut[1][1] = "[health: ruolo, obiettivo]"

\* the debug payload of a response: the diagnosis and the handler's whole trace, in order
CarriesDebug(r) ==
  /\ "debug" \in r.keys
  /\ r.debug # <<>>
  /\ r.debug[1].trace = trace
  /\ r.debug[1].diagnosis =
       IF trace = <<>> THEN "missing_first_attempt_trace"
       ELSE FirstMatchingRule(DiagnosisRules(trace[1].info)).cause

\* C20 as stated: every response, whatever its status, carries a debug payload with the
\* diagnosis and the full ordered trace.
C20_Original ==
  Responded => CarriesDebug(TheReply)

\* C20: every response sent once the prompt has passed validation, whatever its status,
\* carries a debug payload with the diagnosis and the full ordered trace; the 500 and 400
\* responses sent before that carry an error and a request id only; the steps that ran
\* are those of the trace, the payload being built after the last of them.
C20_Amended ==
  /\ Responded /\ Validated =>
       /\ CarriesDebug(TheReply)
       /\ C5_TraceShape
  /\ Responded /\ ~Validated =>
       /\ TheReply.status \in {400, 500}
       /\ TheReply.keys = {"error", "requestId"}
       /\ TheReply.debug = <<>>
       /\ trace = <<>>

\* a 401 at the fifth step, answered with the four steps recorded before it
C20_Witness ==
  /\ Responded
  /\ TheReply.status = 401
  /\ step = 5
  /\ Len(trace) = 4
  /\ TheReply.debug[1].trace = trace

\* the first attempt was recorded and text was extracted from its response
FirstAttemptProducedText == trace # <<>> /\ EntryHasText(trace[1])

\* C21: with LOG_EMPTY_OUTPUT_TRACE enabled, a validated request writes exactly one
\* [debug-empty-output] event when its first attempt produced no text (empty response,
\* refusal, timeout or upstream error) and none when it produced text; nothing is
\* written before the response.
C21_LogsOnceWhenFirstAttemptEmpty ==
  /\ logged \in {0, 1}
  /\ ~Responded => logged = 0
  /\ LOG_EMPTY_OUTPUT_TRACE /\ Responded /\ Validated =>
       IF FirstAttemptProducedText THEN logged = 0 ELSE logged = 1

\* a 401 at the first attempt: no flag of recovery, an empty trace, one event
C21_Witness ==
  /\ Responded
  /\ caught = EAuth
  /\ trace = <<>>
  /\ TheReply.status = 401
  /\ ~TheReply.debug[1].used_local_fallback
  /\ logged = 1

\* the timeout and the label of attempt k of the step being requested
C22_AttemptTimeout(k) == OPENAI_TIMEOUT_WEB_SEARCH_MS + k * OPENAI_TIMEOUT_RETRY_DELTA_MS

C22_State ==
  step >= 1 =>
    /\ attempt \in 0..OPENAI_TIMEOUT_RETRIES
    /\ timeoutMs = C22_AttemptTimeout(attempt)
    /\ attemptLabel = Label(StepLabel(step, USE_CHAT_COMPLETIONS_API), attempt, "")
    /\ lastTimeoutError.code = "TIMEOUT" /\ lastTimeoutError.label.suffix = "" =>
         /\ lastTimeoutError.label.base = StepLabel(step, USE_CHAT_COMPLETIONS_API)
         /\ lastTimeoutError.timeoutMs = C22_AttemptTimeout(lastTimeoutError.label.retry)
         /\ lastTimeoutError.label.retry \in {attempt - 1, attempt}

C22_Step ==
  /\ (step' # step => attempt' = 0 /\ timeoutMs' = OPENAI_TIMEOUT_WEB_SEARCH_MS)
  /\ (step' = step /\ attempt' # attempt =>
        /\ attempt' = attempt + 1
        /\ timeoutMs' > timeoutMs
        /\ timeoutMs' = timeoutMs + OPENAI_TIMEOUT_RETRY_DELTA_MS)

\* C22: within a step, attempt k (k = 0..N) runs with timeout firstTimeout + k * Delta and
\* with the label of the step, plain for k = 0 and marked retry-k for k > 0, so that the
\* timeouts strictly increase across retries; every step starts again at attempt 0 with
\* the initial timeout.
C22_TimeoutsGrowPerStep ==
  /\ []C22_State
  /\ [][C22_Step]_vars

\* the third attempt of the second step timed out at 60000 ms under the label retry-2
C22_Witness ==
  /\ step = 2
  /\ attempt = 2
  /\ timeoutMs = 60000
  /\ Responded
  /\ caught.code = "TIMEOUT"
  /\ caught.timeoutMs = 60000
  /\ caught.label = Label(StepLabel(2, USE_CHAT_COMPLETIONS_API), 2, "")

PendingStatuses == {"queued", "in_progress"}

\* what the poller has returned so far: the responses the steps recorded
C23_State ==
  ~USE_CHAT_COMPLETIONS_API =>
    /\ \A i \in 1..Len(trace) :
         trace[i].info.status \notin PendingStatuses \/ trace[i].info.response_id = ""
    /\ lastResponse.status \notin PendingStatuses \/ lastResponse.id = ""
    /\ pc \in {"sleep", "retrieve"} => response.status \in PendingStatuses /\ response.id # ""

\* one step of the poller: it returns (the step is recorded) or goes on to sleep
C23_Step ==
  ~USE_CHAT_COMPLETIONS_API =>
    /\ Len(trace') = Len(trace) + 1 =>
         /\ trace'[Len(trace')].info = buildResponseDebugInfo(lastResponse')
         /\ lastResponse'.status \notin PendingStatuses \/ lastResponse'.id = ""
         /\ pc = "create" => waitedMs = 0
         /\ pc = "retrieve" => waitedMs > 0
    /\ pc = "create" /\ pc' = "sleep" =>
         response'.status \in PendingStatuses /\ response'.id # "" /\ waitedMs' = 0

\* C23: the poller returns a response only if its status is not pending or it has no id;
\* a response that is pending without an id, or not pending, as it comes from the create
\* call is returned as it is without a sleep or a retrieve call.
C23_PollerReturnsSettled ==
  /\ []C23_State
  /\ [][C23_Step]_vars

\* the first create call answered in_progress without an id: recorded without a wait
C23_Witness ==
  /\ ~USE_CHAT_COMPLETIONS_API
  /\ Len(trace) = 1
  /\ trace[1].info.status = "in_progress"
  /\ trace[1].info.response_id = ""
  /\ lastResponse = RInProgressNoId
  /\ step = 2 /\ pc = "create" /\ attempt = 0

\* the sleeps of one attempt are bounded by the maximum wait
C24_State ==
  /\ pc = "sleep" => waitedMs < OPENAI_POLL_MAX_WAIT_MS
  /\ pc = "retrieve" =>
       /\ waitedMs > 0
       /\ waitedMs - OPENAI_POLL_INTERVAL_MS < OPENAI_POLL_MAX_WAIT_MS
  /\ waitedMs < OPENAI_POLL_MAX_WAIT_MS + OPENAI_POLL_INTERVAL_MS
  /\ \A e \in {lastTimeoutError, caught} :
       e.label.suffix = " polling" =>
         /\ e.code = "TIMEOUT"
         /\ e.timeoutMs = OPENAI_POLL_MAX_WAIT_MS
         /\ e.label.base = label

\* a retrieve call that answers once the maximum wait is reached is never followed by a
\* sleep; when the attempt then fails with a timeout that is not the retrieve call's own,
\* the failure is the polling timeout
C24_Step ==
  /\ pc = "retrieve" /\ waitedMs >= OPENAI_POLL_MAX_WAIT_MS => pc' # "sleep"
  /\ pc = "retrieve" /\ waitedMs < OPENAI_POLL_MAX_WAIT_MS =>
       lastTimeoutError'.label.suffix # " polling" \/ lastTimeoutError' = lastTimeoutError
  /\ pc = "retrieve" /\ lastTimeoutError' # lastTimeoutError
       /\ lastTimeoutError'.code = "TIMEOUT" /\ lastTimeoutError'.label.suffix # " retrieve" =>
         /\ waitedMs >= OPENAI_POLL_MAX_WAIT_MS
         /\ lastTimeoutError'.label.suffix = " polling"
         /\ lastTimeoutError'.label.retry = attempt
         /\ lastTimeoutError'.timeoutMs = OPENAI_POLL_MAX_WAIT_MS

\* C24: when the response stays pending with an id, the poller stops as soon as the
\* accumulated wait has reached the maximum: it sleeps no more and fails with a timeout
\* whose label ends in "polling" and whose timeoutMs is the maximum wait; the wait of an
\* attempt never exceeds the maximum by an interval or more.
C24_PollingTimesOut ==
  /\ []C24_State
  /\ [][C24_Step]_vars

\* the response was still queued when the wait reached the maximum
C24_Witness ==
  /\ waitedMs >= OPENAI_POLL_MAX_WAIT_MS
  /\ response = RQueued
  /\ lastTimeoutError.label.suffix = " polling"
  /\ lastTimeoutError.timeoutMs = OPENAI_POLL_MAX_WAIT_MS
  /\ IsTimeoutFailure(lastTimeoutError)

\* exactly the timer of the withTimeout in progress is pending, and none once it has exited
C25_State ==
  timers = IF pc \in {"create", "retrieve"} THEN 1 ELSE 0

\* the calls of a step are made by the retrying invoker and the poller, one per attempt and
\* one per sleep: leaving a withTimeout never issues its operation again
C25_Step ==
  /\ createCalls' # createCalls => step' # step \/ attempt' = attempt + 1
  /\ pc \in {"create", "retrieve"} /\ pc' \in {"create", "retrieve"} =>
       step' # step \/ attempt' = attempt + 1

\* C25: whichever way withTimeout is left (operation resolved, operation rejected, timer
\* fired) its timer is cleared, so no timer of an invocation that has returned or thrown
\* is pending; withTimeout itself never calls its operation again.
C25_TimerAlwaysCleared ==
  /\ []C25_State
  /\ [][C25_Step]_vars

\* the timer of a retrieve call fired on the last attempt: the response is sent with no
\* timer pending
C25_Witness ==
  /\ Responded
  /\ caught.code = "TIMEOUT"
  /\ caught.label.suffix = " retrieve"
  /\ timers = 0

\* what a request has done and answered so far
C26_Observable ==
  <<trace, res, logged, output, refusal, lastResponse, finalDebug, recoveredFromEmptyOutput,
    usedNoWebRecovery, caught, pc, step, attempt, timeoutMs, createCalls, response, waitedMs,
    lastTimeoutError, payload>>

RECURSIVE RunAlone(_, _)
RunAlone(i, n) ==
  IF n = 0 THEN [HandlerState(RequestPrompt(i)) EXCEPT !.pc = "create", !.step = 1]
  ELSE AfterStep(RunAlone(i, n - 1), reqs[i].got[n])

\* request i's handler run on its own, fed everything its calls received so far
Isolated(i) ==
  LET alone == RunAlone(i, Len(reqs[i].got))
  IN IF reqs[i].caught = NoError THEN alone ELSE AfterThrow(alone, reqs[i].caught)

C28_Floor(k, precedingReason) ==
  IF k = 1 THEN 1200 ELSE IF precedingReason = "max_output_tokens" THEN 2600 ELSE 1600

C28_Cap(k, precedingReason) ==
  IF MAX_OUTPUT_TOKENS > C28_Floor(k, precedingReason)
  THEN MAX_OUTPUT_TOKENS ELSE C28_Floor(k, precedingReason)

\* a step is requested: its cap follows from the step and from the incomplete reason of
\* the response recorded last, and is no lower than the cap the first step was sent with
C28_Step ==
  (step' # step) =>
    /\ (step' = 1) => (payload'.max_output_tokens = C28_Cap(1, ""))
    /\ (step' > 1) =>
         /\ payload'.max_output_tokens =
              C28_Cap(step', trace'[Len(trace')].info.incomplete_reason)
         /\ payload'.max_output_tokens >= C28_Cap(1, "")
         /\ payload'.max_output_tokens >= 1600

\* C28: the output-token cap sent upstream is max(MAX_OUTPUT_TOKENS, floor), with floor
\* 1200 for initial_web_search and, for every later step, 2600 when the response recorded
\* immediately before had incomplete reason max_output_tokens and 1600 otherwise; the cap
\* of a later step is never below the cap of the first step.
C28_TokenCapFollowsFloors == [][C28_Step]_vars

\* the third step is requested with cap 2600 after a token-limited second response, the
\* first response not having been token-limited (cap 1600 at step 2)
C28_Witness ==
  /\ step = 3
  /\ pc = "create"
  /\ payload.max_output_tokens = 2600
  /\ trace[1].info.incomplete_reason = ""
  /\ trace[2].info.incomplete_reason = "max_output_tokens"


\* ------------------------------------------------------------------------------- C29
\* a finalize step is requested only right after the retry it finalizes was recorded with
\* a response that carries an id
C29_IssuedAfterItsRetry ==
  (step' # step /\ step' \in {3, 5}) =>
    /\ step = step' - 1
    /\ Len(trace') = Len(trace) + 1
    /\ trace'[Len(trace')].step = StepNames[step' - 1]
    /\ trace'[Len(trace')].info.response_id = lastResponse'.id
    /\ lastResponse'.id # ""

\* a retry recorded without text or refusal: its finalize step is requested when the
\* response carries an id, and is passed over without any failure when it does not
C29_SkippedWithoutId ==
  (step \in {2, 4} /\ Len(trace') = Len(trace) + 1 /\ output' = <<>> /\ refusal' = <<>>) =>
    /\ caught' = NoError
    /\ (lastResponse'.id # "") => (step' = step + 1 /\ pc' = "create")
    /\ (lastResponse'.id = "" /\ step = 2) => (step' = 4 /\ pc' = "create")
    /\ (lastResponse'.id = "" /\ step = 4) =>
         (step' = 4 /\ pc' = "responded" /\ res'[1].status = 200 /\ Len(res'[1].debug[1].trace) = Len(trace'))

C29_OriginalStep ==
  /\ C29_IssuedAfterItsRetry
  /\ C29_SkippedWithoutId
  /\ (step' # step /\ step' \in {3, 5}) => (payload'.previous_response_id = lastResponse'.id)

\* C29 as stated: a finalize step is issued only right after its retry was recorded with a
\* non-empty id, is skipped without failure when the id is absent, and its request always
\* references that id.
C29_Original == [][C29_OriginalStep]_vars

C29_AmendedStep ==
  /\ C29_IssuedAfterItsRetry
  /\ C29_SkippedWithoutId
  /\ (step' # step /\ step' \in {3, 5}) =>
       (payload'.previous_response_id = IF USE_CHAT_COMPLETIONS_API THEN "" ELSE lastResponse'.id)

\* C29 amended: a finalize step is issued only right after its retry was recorded with a
\* non-empty id and is skipped without failure when the id is absent; through the Responses
\* API its request references exactly that id, through the chat-completions API it is a
\* fresh completion that references no response.
C29_Amended == [][C29_AmendedStep]_vars

\* the second finalize step is requested through the Responses API with the id of the
\* model-only retry, the first finalize step having been passed over for want of an id
C29_Witness ==
  /\ ~USE_CHAT_COMPLETIONS_API
  /\ step = 5
  /\ pc = "create"
  /\ Len(trace) = 3
  /\ trace[2].info.response_id = ""
  /\ trace[3].step = "retry_model_only"
  /\ payload.previous_response_id = trace[3].info.response_id
  /\ payload.previous_response_id # ""


\* ------------------------------------------------------------------------------- C30
\* the characters each shape of the inputs writes its text with
FlatChars == {"F"}
SegmentChars == {"S", "V"}
ItemChars == {"O", "I", "C"}
ChoiceChars == {"T", "P", "Q"}
CharsOf(s) == {s[i] : i \in 1..Len(s)} \ {" ", NL}

\* which shapes of a response hold text that is not blank
HoldsFlat(r) == r.output_text_kind = "string" /\ CharsOf(r.output_text) # {}
HoldsSegments(r) ==
  /\ r.output_text_kind = "array"
  /\ \E i \in 1..Len(r.output_text_arr) :
       CharsOf(r.output_text_arr[i].text) \cup CharsOf(r.output_text_arr[i].value) # {}
HoldsItems(r) ==
  \E i \in 1..Len(r.output) :
    \/ CharsOf(r.output[i].text) \cup CharsOf(r.output[i].content_str) # {}
    \/ \E j \in 1..Len(r.output[i].content) : CharsOf(r.output[i].content[j].text) # {}
HoldsChoices(r) ==
  \E i \in 1..Len(r.choices) :
    \/ CharsOf(r.choices[i].content_str) # {}
    \/ \E j \in 1..Len(r.choices[i].content) : CharsOf(r.choices[i].content[j].text) # {}

\* the characters of the shape that comes first in the priority order among those that
\* hold text
C30_ExpectedChars(r) ==
  IF HoldsFlat(r) THEN FlatChars
  ELSE IF HoldsSegments(r) THEN SegmentChars
  ELSE IF HoldsItems(r) THEN ItemChars
  ELSE IF HoldsChoices(r) THEN ChoiceChars
  ELSE {}

\* C30: extractOutputText returns the text of the first shape that holds any, in the order
\* flat text field, array of segments, output items, legacy choices: a non-blank flat text
\* is returned trimmed whatever the other fields hold; the result has no leading or
\* trailing whitespace, so it is never whitespace-only; and it is the empty string when no
\* shape holds text.
C30_ExtractFollowsPriority ==
  (pc = "built" /\ fnArg \in ExtractInputs) =>
    LET r == fnArg
        out == fnOut[1]
    IN /\ HoldsFlat(r) => (out = Trim(r.output_text))
       /\ CharsOf(out) \subseteq C30_ExpectedChars(r)
       /\ (C30_ExpectedChars(r) # {}) => (out # <<>>)
       /\ out = Trim(out)
       /\ (~HoldsFlat(r) /\ ~HoldsSegments(r) /\ ~HoldsItems(r) /\ ~HoldsChoices(r))
            => (out = <<>>)

\* every shape holds text and the flat text, padded with whitespace, is returned trimmed
C30_Witness ==
  /\ pc = "built"
  /\ fnArg \in ExtractInputs
  /\ fnArg.output_text = <<" ", "F", NL>>
  /\ HoldsItems(fnArg)
  /\ HoldsChoices(fnArg)
  /\ fnOut = <<(<<"F">>)>>


\* ------------------------------------------------------------------------------- C31
\* the only content of the response is refusal-typed parts carrying their message in text
OnlyRefusalTypedParts(r) ==
  /\ r.output_text_kind = "none"
  /\ r.choices = <<>>
  /\ r.output # <<>>
  /\ \A i \in 1..Len(r.output) :
       /\ r.output[i].text = <<>>
       /\ r.output[i].refusal = <<>>
       /\ r.output[i].content_kind = "array"
       /\ r.output[i].content # <<>>
       /\ \A j \in 1..Len(r.output[i].content) :
            /\ r.output[i].content[j].kind = "object"
            /\ r.output[i].content[j].type = "refusal"
            /\ r.output[i].content[j].refusal = <<>>
            /\ NonBlank(r.output[i].content[j].text)

\* C31: a first response whose only content is a refusal-typed part carrying its message
\* in a text field yields empty extracted text and non-empty extracted refusal, and the
\* request is answered as a refusal with status 422.
C31_RefusalTypedPartIsRefusal ==
  (Responded /\ Len(trace) = 1 /\ OnlyRefusalTypedParts(lastResponse)) =>
    /\ extractOutputText(lastResponse) = <<>>
    /\ extractRefusalText(lastResponse) # <<>>
    /\ TheReply.status = 422


\* ------------------------------------------------------------------------------- C32
\* the place in the priority order of the topic each word of the inputs belongs to
C32_TopicRank(w) ==
  IF w \in {<<"D", "i", "e", "t", "a">>, <<"d", "i", "m", "a", "g", "r", "i", "r", "e">>} THEN 1
  ELSE IF w = <<"s", "e", "o">> THEN 2
  ELSE IF w = <<"a", "p", "i">> THEN 3
  ELSE IF w = <<"e", "s", "a", "m", "e">> THEN 4
  ELSE 5

C32_TemplateHead == <<"[health: ruolo, obiettivo]", "[marketing: ruolo, obiettivo]",
                      "[coding: ruolo, obiettivo]", "[study: ruolo, obiettivo]",
                      "[generic: ruolo, obiettivo]">>
C32_TemplateTail == <<"[health: domande, output, vincoli]", "[marketing: output, vincoli]",
                      "[coding: formato, vincoli]", "[study: formato, vincoli]",
                      "[generic: vincoli, formato]">>

\* the highest-priority topic among the words the input is made of
C32_BestRank(s) ==
  LET ranks == {C32_TopicRank(w) : w \in {v \in FallbackWords : Includes(s, v)}}
  IN CHOOSE k \in ranks : \A j \in ranks : k <= j

\* C32: buildLocalFallbackPrompt produces the template of the first topic, in the order
\* health, marketing, coding, study, whose keywords the prompt matches, the generic
\* template when it matches none, and exactly one of the five templates for every input.
C32_FirstMatchingTopicWins ==
  (pc = "built" /\ fnArg \in FallbackInputs) =>
    LET out == fnOut[1]
        k == C32_BestRank(fnArg)
    IN /\ out[1] = C32_TemplateHead[k]
       /\ out[Len(out)] = C32_TemplateTail[k]
       /\ \A i \in 1..Len(out) : \A j \in 1..5 :
            (out[i] = C32_TemplateHead[j] \/ out[i] = C32_TemplateTail[j]) => (j = k)

\* a prompt that names a study topic before a marketing topic gets the marketing template
C32_Witness ==
  /\ pc = "built"
  /\ fnArg = <<"e", "s", "a", "m", "e", " ", "s", "e", "o">>
  /\ fnOut[1][1] = "[marketing: ruolo, obiettivo]"


\* ------------------------------------------------------------------------------- C33
\* C33: when every armed timeout timer and every poll sleep eventually fires, every
\* request that enters the handler eventually receives an HTTP response, whatever the
\* upstream does at each attempt.
C33_EveryRequestAnswered == <>Responded

\* the upstream never answered: every attempt of the first step ran into its timer and the
\* request was answered all the same
C33_Witness ==
  /\ Responded
  /\ step = 1
  /\ caught.code = "TIMEOUT"
  /\ caught.attempts = OPENAI_TIMEOUT_RETRIES + 1
  /\ createCalls = OPENAI_TIMEOUT_RETRIES + 1
  /\ TheReply.status = 200


\* ------------------------------------------------------------------------------- C34
\* C34: every 200 response to a validated prompt carries a prompt that is neither empty
\* nor blank: the text extracted from the last upstream response, or the local fallback
\* template built from the request's prompt.
C34_OkCarriesPrompt ==
  (Responded /\ Validated /\ TheReply.status = 200) =>
    /\ "prompt" \in TheReply.keys
    /\ "error" \notin TheReply.keys
    /\ NonBlank(TheReply.prompt)
    /\ \/ TheReply.prompt = extractOutputText(lastResponse) /\ caught = NoError
       \/ TheReply.prompt = buildLocalFallbackPrompt(prompt) /\ TheReply.usedLocalFallback

\* a failure that carries no status at the second step is answered 200 with the template
C34_Witness ==
  /\ Responded
  /\ step = 2
  /\ caught = ENoStatus
  /\ TheReply.status = 200
  /\ TheReply.prompt = buildLocalFallbackPrompt(prompt)
  /\ NonBlank(TheReply.prompt)


\* ------------------------------------------------------------------------------- C35
\* at most five steps, and in the step under way one create call per attempt, at most
\* OPENAI_TIMEOUT_RETRIES + 1 of them
C35_State ==
  /\ step \in 0..5
  /\ createCalls <= OPENAI_TIMEOUT_RETRIES + 1
  /\ (pc \in {"create", "sleep", "retrieve"}) => (createCalls = attempt + 1)

\* the steps are issued in increasing order, so each at most once, and each starts with
\* its first create call; within a step each retry adds one create call
C35_Step ==
  /\ step' >= step
  /\ (step' # step) => (createCalls' = 1)
  /\ (step' = step) => (createCalls' \in {createCalls, createCalls + 1})

\* C35: a request issues at most five escalation steps, each at most once, and each step
\* makes at most OPENAI_TIMEOUT_RETRIES + 1 create calls, so a request makes at most
\* 5 * (OPENAI_TIMEOUT_RETRIES + 1) of them.
C35_CreateCallsBounded == []C35_State /\ [][C35_Step]_vars

\* the fifth step is at the last create call of its budget
C35_Witness ==
  /\ step = 5
  /\ pc = "create"
  /\ createCalls = OPENAI_TIMEOUT_RETRIES + 1


\* ------------------------------------------------------------------------------- C36
\* the outcome is text taken from the first step
C36_TextFromFirstStep ==
  /\ TheReply.status = 200
  /\ Len(trace) = 1
  /\ caught = NoError
  /\ TheReply.prompt # <<>>
  /\ TheReply.prompt = extractOutputText(lastResponse)
  /\ ~TheReply.recoveredFromEmptyOutput
  /\ ~TheReply.usedLocalFallback

\* C36: in every response that carries a debug payload the diagnosis is
\* no_empty_output_first_attempt exactly when the outcome is text taken from the first
\* step, and the has_output_text flag of every trace entry is true exactly when the text
\* extracted from that step's response is not empty.
C36_NoEmptyIffFirstStepText ==
  (Responded /\ TheReply.debug # <<>>) =>
    /\ (TheReply.debug[1].diagnosis = "no_empty_output_first_attempt") <=> C36_TextFromFirstStep
    /\ \A k \in 1..Len(TheReply.debug[1].trace) :
         TheReply.debug[1].trace[k].info.has_output_text
           <=> (TheReply.debug[1].trace[k].info.output_text_length > 0)
    /\ (trace # <<>>) =>
         (trace[Len(trace)].info.has_output_text <=> (extractOutputText(lastResponse) # <<>>))

\* a chat completion gives its text in choices at the first step: no output item holds
\* text, the entry says has_output_text and the diagnosis is no_empty_output_first_attempt
C36_Witness ==
  /\ Responded
  /\ USE_CHAT_COMPLETIONS_API
  /\ lastResponse = RChoiceText
  /\ Len(trace) = 1
  /\ TheReply.debug[1].diagnosis = "no_empty_output_first_attempt"
  /\ TheReply.debug[1].trace[1].info.output_count = 0
  /\ TheReply.status = 200


\* ------------------------------------------------------------------------------- C37
\* the trace grows by one entry when a step returns a response and at no other time: not
\* when an attempt times out and is retried, not when the step fails, not while polling
C37_Step ==
  /\ \/ trace' = trace
     \/ /\ Len(trace') = Len(trace) + 1
        /\ SubSeq(trace', 1, Len(trace)) = trace
        /\ trace'[Len(trace')].step = StepNames[step]
        /\ trace'[Len(trace')].info = buildResponseDebugInfo(lastResponse')
        /\ caught' = NoError
  /\ (attempt' # attempt /\ step' = step) => (trace' = trace)
  /\ (caught' # NoError) => (trace' = trace)
  /\ (pc' = "sleep") => (trace' = trace)
  /\ (step >= 1 /\ (step' # step \/ (pc' = "responded" /\ caught' = NoError)))
       => (Len(trace') = Len(trace) + 1)

\* one entry per step, in order; a failed request reports the steps completed before the
\* failing one, and nothing at all when the first step failed
C37_State ==
  /\ \A j, k \in 1..Len(trace) : (j < k) => (StepIndex(trace[j].step) < StepIndex(trace[k].step))
  /\ (Responded /\ caught # NoError) =>
       /\ TheReply.debug[1].trace = trace
       /\ TheReply.debug[1].final_attempt = <<>>
       /\ \A k \in 1..Len(trace) : StepIndex(trace[k].step) < step
       /\ (step = 1) =>
            /\ trace = <<>>
            /\ TheReply.debug[1].first_attempt = <<>>
            /\ TheReply.debug[1].diagnosis = "missing_first_attempt_trace"
       /\ (step > 1) =>
            /\ trace # <<>>
            /\ trace[1].step = "initial_web_search"
            /\ TheReply.debug[1].first_attempt = <<trace[1]>>

\* C37: the trace holds exactly one entry per escalation step that returned a response;
\* attempts that time out, retried or not, or fail add none. When the first step fails
\* the debug payload has an empty trace, no first attempt, no final attempt and diagnosis
\* missing_first_attempt_trace; when a later step fails it holds the steps completed
\* before it.
C37_OneEntryPerReturnedStep == []C37_State /\ [][C37_Step]_vars

\* the first step used up its retries: nothing was recorded
C37_Witness ==
  /\ Responded
  /\ step = 1
  /\ attempt = OPENAI_TIMEOUT_RETRIES
  /\ caught.code = "TIMEOUT"
  /\ trace = <<>>
  /\ TheReply.debug[1].diagnosis = "missing_first_attempt_trace"


\* ------------------------------------------------------------------------------- C38
\* the failure was raised inside the Completion Poller: at the maximum wait, or by the
\* timer of one retrieve call
C38_FromPoller(e) == e.code = "TIMEOUT" /\ e.label.suffix \in {" polling", " retrieve"}

\* a step in which the poller raises a timeout
C38_PollerTimesOut ==
  \/ pc \in {"create", "retrieve"} /\ caught' # NoError /\ C38_FromPoller(caught')
  \/ lastTimeoutError' # lastTimeoutError /\ C38_FromPoller(lastTimeoutError')

C38_Step ==
  C38_PollerTimesOut =>
    /\ C38_FromPoller(lastTimeoutError')
    /\ trace' = trace
    /\ (attempt < OPENAI_TIMEOUT_RETRIES) =>
         /\ attempt' = attempt + 1
         /\ createCalls' = createCalls + 1
         /\ pc' = "create"
         /\ waitedMs' = 0
         /\ step' = step
         /\ timeoutMs' = timeoutMs + OPENAI_TIMEOUT_RETRY_DELTA_MS
         /\ caught' = NoError
    /\ (attempt = OPENAI_TIMEOUT_RETRIES) =>
         /\ pc' = "responded"
         /\ caught' = lastTimeoutError'
         /\ caught'.attempts = OPENAI_TIMEOUT_RETRIES + 1
         /\ createCalls' = OPENAI_TIMEOUT_RETRIES + 1

\* C38: a timeout raised inside the Completion Poller, at the maximum wait or by one
\* retrieve call, uses up one unit of the retry budget like any other timeout: the next
\* attempt issues a fresh create call and polls from a waited time of 0, and after
\* OPENAI_TIMEOUT_RETRIES + 1 attempts the failure is raised with that number of attempts.
C38_PollerTimeoutIsRetried == [][C38_Step]_vars

\* the poller reached the maximum wait in the last attempt of the budget, after an
\* earlier attempt had been retried
C38_Witness ==
  /\ Responded
  /\ caught.label.suffix = " polling"
  /\ caught.label.retry = OPENAI_TIMEOUT_RETRIES
  /\ caught.attempts = OPENAI_TIMEOUT_RETRIES + 1
  /\ waitedMs >= OPENAI_POLL_MAX_WAIT_MS


\* ------------------------------------------------------------------------------- C39
\* ceil(OPENAI_POLL_MAX_WAIT_MS / OPENAI_POLL_INTERVAL_MS)
C39_MaxRetrieves ==
  (OPENAI_POLL_MAX_WAIT_MS + OPENAI_POLL_INTERVAL_MS - 1) \div OPENAI_POLL_INTERVAL_MS

\* the least multiple of the interval that is at least the maximum wait
C39_LastWait == C39_MaxRetrieves * OPENAI_POLL_INTERVAL_MS

\* the wait accumulated by the poller is a multiple of the interval; the retrieve calls
\* of the run, one per interval waited, are at most C39_MaxRetrieves
C39_State ==
  /\ waitedMs % OPENAI_POLL_INTERVAL_MS = 0
  /\ waitedMs \div OPENAI_POLL_INTERVAL_MS <= C39_MaxRetrieves
  /\ (pc = "sleep") => (waitedMs < OPENAI_POLL_MAX_WAIT_MS)
  /\ C39_LastWait - OPENAI_POLL_MAX_WAIT_MS <= OPENAI_POLL_INTERVAL_MS - 1

\* each retrieve call follows one sleep of the interval; the polling timeout is raised
\* only at the last wait, and a pending response seen there is never slept on
C39_Step ==
  /\ (pc' = "retrieve") => (pc = "sleep" /\ waitedMs' = waitedMs + OPENAI_POLL_INTERVAL_MS)
  /\ (waitedMs' # waitedMs) => (waitedMs' = 0 \/ pc' = "retrieve")
  /\ (lastTimeoutError' # lastTimeoutError /\ lastTimeoutError'.label.suffix = " polling")
       => (waitedMs = C39_LastWait)
  /\ (pc' = "sleep") => (waitedMs' = waitedMs /\ waitedMs < C39_LastWait)

\* C39: in one run of the Completion Poller the accumulated wait is always a multiple of
\* the poll interval, at most ceil(maxWait / interval) retrieve calls are made, and the
\* polling timeout is raised exactly when the accumulated wait is the least multiple of
\* the interval that is at least maxWait, which exceeds maxWait by at most interval - 1.
C39_PollerWaitsInIntervals == []C39_State /\ [][C39_Step]_vars

\* the polling timeout was raised at a wait above the maximum wait
C39_Witness ==
  /\ lastTimeoutError.label.suffix = " polling"
  /\ pc = "create"
  /\ attempt = 1
  /\ lastTimeoutError.label.retry = 0
  /\ C39_LastWait > OPENAI_POLL_MAX_WAIT_MS


\* ------------------------------------------------------------------------------- C40
\* the returned prompt is text extracted from the response of retry_model_only or of
\* finalize_from_previous_model_only
C40_TextFromModelOnly ==
  /\ caught = NoError
  /\ trace # <<>>
  /\ trace[Len(trace)].step \in {"retry_model_only", "finalize_from_previous_model_only"}
  /\ "prompt" \in TheReply.keys
  /\ TheReply.prompt # <<>>
  /\ TheReply.prompt = extractOutputText(lastResponse)
  /\ trace[Len(trace)].info.output_text_length = Len(TheReply.prompt)

\* C40: in every response usedNoWebRecovery is true exactly when the returned prompt is
\* text extracted from retry_model_only or finalize_from_previous_model_only; when it is
\* true recoveredFromEmptyOutput is true as well and usedLocalFallback is not set; and
\* every local-fallback response has recoveredFromEmptyOutput true.
C40_NoWebFlagMeansModelOnlyText ==
  Responded =>
    /\ TheReply.usedNoWebRecovery <=> C40_TextFromModelOnly
    /\ TheReply.usedNoWebRecovery =>
         /\ TheReply.recoveredFromEmptyOutput
         /\ ~TheReply.usedLocalFallback
         /\ "usedLocalFallback" \notin TheReply.keys
    /\ TheReply.usedLocalFallback => TheReply.recoveredFromEmptyOutput

\* the model-only retry returned no text and its finalize step did
C40_Witness ==
  /\ Responded
  /\ Len(trace) = 5
  /\ trace[4].info.output_text_length = 0
  /\ trace[5].step = "finalize_from_previous_model_only"
  /\ TheReply.usedNoWebRecovery
  /\ TheReply.recoveredFromEmptyOutput
  /\ TheReply.status = 200

====
